---- MODULE Spec2Model ----
(***************************************************************************)
(* msys2-install-packages-pinned: the specification parser, the catalog    *)
(* parser, the version matcher, the resolver (helper.ts) and the run of    *)
(* the action (index.ts).                                                  *)
(*                                                                         *)
(* Strings are sequences of one-character strings, so that split, match,   *)
(* startsWith and parseInt are computed on the characters as the code      *)
(* computes them.  A function that may throw returns a record              *)
(* [ok, error, value]; error names the thrown Error by the taxonomy of     *)
(* the specification (the code throws plain Errors told apart by message). *)
(***************************************************************************)
EXTENDS Integers, Sequences, FiniteSets, TLC

VARIABLES
    DEFAULT_SETTINGS,   \* helper.ts module-level object, shared by every parse
    pc,                 \* position of the run / of the driver
    msystemInput,       \* core.getInput("msystem")
    installInput,       \* core.getInput("install") / the text given to the parser
    os,                 \* core.platform.platform
    runnerTemp,         \* process.env.RUNNER_TEMP, <<>> when it is undefined
    cmd,                \* index.ts module-level cmd, <<>> while it is null
    curMSystem,         \* the MSystem in use
    requested,          \* result of resolveRequestedPackageSpecs (with its trace)
    catalog,            \* the catalog: result.packages of extractPackages
    selectedPackages,   \* result of resolveBestSuitablePackageSpecs
    lineIdx,            \* installMultiplePackageSpecs: index of the current batch
    pkgIdx,             \* installPackages: index of the next package of the batch
    pathsAcc,           \* installPackages: paths of the current batch
    ops,                \* log of the external operations performed, in order
    failed,             \* messages given to core.setFailed, in order
    body,               \* resolvePackageSpecs: the document read by getRawBody
    extracted           \* resolvePackageSpecs: result of extractPackages

vars == <<DEFAULT_SETTINGS, pc, msystemInput, installInput, os, runnerTemp, cmd,
          curMSystem, requested, catalog, selectedPackages, lineIdx, pkgIdx,
          pathsAcc, ops, failed, body, extracted>>

----------------------------------------------------------------------------
(* Results of functions that may throw *)

Ok(v) == [ok |-> TRUE, error |-> "", value |-> v]

Throw(e) == [ok |-> FALSE, error |-> e, value |-> <<>>]

----------------------------------------------------------------------------
(* String primitives of JavaScript used by the code *)

Digit == {"0", "1", "2", "3", "4", "5", "6", "7", "8", "9"}

DigitValue(c) ==
    CASE c = "0" -> 0 [] c = "1" -> 1 [] c = "2" -> 2 [] c = "3" -> 3
      [] c = "4" -> 4 [] c = "5" -> 5 [] c = "6" -> 6 [] c = "7" -> 7
      [] c = "8" -> 8 [] c = "9" -> 9

DigitChar(d) ==
    CASE d = 0 -> "0" [] d = 1 -> "1" [] d = 2 -> "2" [] d = 3 -> "3"
      [] d = 4 -> "4" [] d = 5 -> "5" [] d = 6 -> "6" [] d = 7 -> "7"
      [] d = 8 -> "8" [] d = 9 -> "9"

\* String.prototype.startsWith
StartsWith(s, p) == Len(s) >= Len(p) /\ SubSeq(s, 1, Len(p)) = p

\* String.prototype.endsWith
EndsWith(s, p) == Len(s) >= Len(p) /\ SubSeq(s, Len(s) - Len(p) + 1, Len(s)) = p

\* String.prototype.includes, for a one-character needle
Includes(s, c) == \E i \in 1..Len(s) : s[i] = c

\* Array.prototype.includes
ArrayIncludes(arr, x) == \E i \in 1..Len(arr) : arr[i] = x

\* index of the first c in s, 0 when there is none
IndexOf(s, c) ==
    IF Includes(s, c) THEN CHOOSE i \in 1..Len(s) : s[i] = c /\ \A j \in 1..(i - 1) : s[j] # c
    ELSE 0

\* String.prototype.split, for a one-character separator: always at least one piece
RECURSIVE Split(_, _)
Split(s, c) ==
    IF ~Includes(s, c) THEN <<s>>
    ELSE LET i == IndexOf(s, c)
         IN  <<SubSeq(s, 1, i - 1)>> \o Split(SubSeq(s, i + 1, Len(s)), c)

\* Array.prototype.join, for a string separator
RECURSIVE Join(_, _)
Join(arr, sep) ==
    IF Len(arr) = 0 THEN <<>>
    ELSE IF Len(arr) = 1 THEN arr[1]
    ELSE arr[1] \o sep \o Join(Tail(arr), sep)

\* length of the longest prefix of s made of digits (what \d* consumes)
RECURSIVE DigitRun(_)
DigitRun(s) ==
    IF Len(s) = 0 \/ s[1] \notin Digit THEN 0 ELSE 1 + DigitRun(Tail(s))

\* value of a string of digits
RECURSIVE DigitsValue(_)
DigitsValue(s) ==
    IF Len(s) = 0 THEN 0
    ELSE DigitsValue(SubSeq(s, 1, Len(s) - 1)) * 10 + DigitValue(s[Len(s)])

\* parseInt(inp), radix 10, for inputs without sign or leading blanks (the code
\* only passes \d* captures): the leading digits, NaN (<<>>) when there are none
parseInt(inp) ==
    LET n == DigitRun(inp)
    IN  IF n = 0 THEN <<>> ELSE <<DigitsValue(SubSeq(inp, 1, n))>>

\* template-literal rendering of a non-negative integer
RECURSIVE NumberToString(_)
NumberToString(n) ==
    IF n < 10 THEN <<DigitChar(n)>>
    ELSE NumberToString(n \div 10) \o <<DigitChar(n % 10)>>

----------------------------------------------------------------------------
(* helper.ts: versions *)

parseIntSafe(inp) ==
    LET result == parseInt(inp)
    IN  IF result = <<>> THEN Throw("NotAnInteger") ELSE Ok(result[1])

\* an absent (undefined) field of a PartialVersion is <<>>, a present one <<n>>
EMPTY_PARTIAL_VERSION == [major |-> <<>>, minor |-> <<>>, patch |-> <<>>, rev |-> <<>>]

SameAsRest == [type |-> "requested", classification |-> "same_as_rest"]

isRequestedVersion(version) == "type" \in DOMAIN version /\ version.type = "requested"

\* a partial version that keeps only the major and minor fields of a Version
AsMajorMinorVersion(v) ==
    [major |-> <<v.major>>, minor |-> <<v.minor>>, patch |-> <<>>, rev |-> <<>>]

\* a Version used where a PartialVersion is expected (line 637): all four fields present
AsPartialVersion(v) ==
    [major |-> <<v.major>>, minor |-> <<v.minor>>, patch |-> <<v.patch>>, rev |-> <<v.rev>>]

MAJOR_MULT == 1000000000

MINOR_MULT == 1000000

PATCH_MULT == 1000

REV_MULT == 1

getCompareNumberForVersion(version) ==
    version.major * MAJOR_MULT + version.minor * MINOR_MULT
        + version.patch * PATCH_MULT + version.rev * REV_MULT

matchesMatcher(matcher, value) ==
    IF matcher.type = "any" THEN TRUE ELSE matcher.data = value

MatcherFor(field) ==
    IF field # <<>> THEN [type |-> "eq", data |-> field[1]] ELSE [type |-> "any", data |-> 0]

\* a comparison that looks at the major and minor fields only
isCompatibleMajorMinor(version, partialVersion) ==
    /\ matchesMatcher(MatcherFor(partialVersion.major), version.major)
    /\ matchesMatcher(MatcherFor(partialVersion.minor), version.minor)

isCompatibleVersion(version, partialVersion) ==
    LET matchers == << MatcherFor(partialVersion.major), MatcherFor(partialVersion.minor),
                       MatcherFor(partialVersion.patch), MatcherFor(partialVersion.rev) >>
        versionArray == << version.major, version.minor, version.patch, version.rev >>
    IN  \A i \in 1..4 : matchesMatcher(matchers[i], versionArray[i])

----------------------------------------------------------------------------
(* helper.ts: the resolver *)

isNormalResolvedPackage(resolvedPackage) == resolvedPackage.type = "normal"

\* lines 714-716: the versions of the normal packages resolved so far in this line
PrevVersions(acc) ==
    LET normal == SelectSeq(acc, isNormalResolvedPackage)
    IN  [i \in 1..Len(normal) |-> normal[i].parsedVersion]

\* lines 620-629: every number equals the first one
areAllTheSame(prevNumbers) ==
    \A i \in 1..Len(prevNumbers) : prevNumbers[i] = prevNumbers[1]

\* a version lookup that takes "!" without an earlier version for "any version"
RequestedVersionUnchecked(requestedPackage, prevVersions) ==
    IF ~isRequestedVersion(requestedPackage.partialVersion)
    THEN Ok(requestedPackage.partialVersion)
    ELSE IF Len(prevVersions) = 0 THEN Ok(EMPTY_PARTIAL_VERSION)
    ELSE Ok(AsPartialVersion(prevVersions[1]))

\* lines 606-643: the partial version the catalog is filtered with
RequestedVersionFor(requestedPackage, prevVersions) ==
    LET requestedVersion == requestedPackage.partialVersion
    IN  IF isRequestedVersion(requestedVersion)
        THEN IF Len(prevVersions) = 0 THEN Throw("NoPriorVersionToReference")
             ELSE LET prevNumbers ==
                          [i \in 1..Len(prevVersions) |-> getCompareNumberForVersion(prevVersions[i])]
                  IN  IF ~areAllTheSame(prevNumbers) THEN Throw("InconsistentSiblingVersions")
                      ELSE Ok(AsPartialVersion(prevVersions[1]))
        ELSE Ok(requestedVersion)

\* lines 645-661: the catalog entries with a candidate name and a compatible version,
\* in catalog order
SuitablePackages(requestedPackage, requestedVersion, allRawPackages) ==
    LET suitable(pkg) ==
            /\ ArrayIncludes(requestedPackage.names, pkg.parsedContent.name)
            /\ isCompatibleVersion(pkg.parsedContent.version, requestedVersion)
    IN  SelectSeq(allRawPackages, suitable)

\* a comparator that sorts the least comparison number first
CompareAscending(pkgA, pkgB) ==
    getCompareNumberForVersion(pkgA.parsedContent.version)
        - getCompareNumberForVersion(pkgB.parsedContent.version)

\* the comparator of line 687: negative when pkgA is to come first
ComparePackages(pkgA, pkgB) ==
    getCompareNumberForVersion(pkgB.parsedContent.version)
        - getCompareNumberForVersion(pkgA.parsedContent.version)

\* an insertion that puts pkg before the elements it compares equal to
RECURSIVE InsertBeforeEqual(_, _)
InsertBeforeEqual(sorted, pkg) ==
    IF Len(sorted) = 0 THEN <<pkg>>
    ELSE IF ComparePackages(sorted[Len(sorted)], pkg) < 0 THEN Append(sorted, pkg)
    ELSE Append(InsertBeforeEqual(SubSeq(sorted, 1, Len(sorted) - 1), pkg), sorted[Len(sorted)])

\* insert pkg after the last element that does not sort after it (stable)
RECURSIVE InsertSorted(_, _)
InsertSorted(sorted, pkg) ==
    IF Len(sorted) = 0 THEN <<pkg>>
    ELSE IF ComparePackages(sorted[Len(sorted)], pkg) <= 0 THEN Append(sorted, pkg)
    ELSE Append(InsertSorted(SubSeq(sorted, 1, Len(sorted) - 1), pkg), sorted[Len(sorted)])

\* lines 678-688: Array.prototype.sort with the comparator, a stable sort
RECURSIVE SortedPackages(_)
SortedPackages(suitablePackages) ==
    IF Len(suitablePackages) = 0 THEN <<>>
    ELSE InsertSorted(SortedPackages(SubSeq(suitablePackages, 1, Len(suitablePackages) - 1)),
                      suitablePackages[Len(suitablePackages)])

\* a resolution that looks for a virtual package too: it fails when the catalog is empty
resolveVirtualFromCatalog(requestedPackage, allRawPackages, prevVersions) ==
    IF requestedPackage.type = "virtual"
    THEN IF Len(allRawPackages) = 0 THEN Throw("NoSuitablePackageFound")
         ELSE Ok([type |-> "virtual", name |-> requestedPackage.name])
    ELSE LET requestedVersion == RequestedVersionFor(requestedPackage, prevVersions)
         IN  IF ~requestedVersion.ok THEN requestedVersion
             ELSE LET suitablePackages ==
                          SuitablePackages(requestedPackage, requestedVersion.value, allRawPackages)
                  IN  IF Len(suitablePackages) = 0 THEN Throw("NoSuitablePackageFound")
                      ELSE LET rawPackage == SortedPackages(suitablePackages)[1]
                           IN  Ok([type |-> "normal",
                                   fullUrl |-> rawPackage.fullUrl,
                                   name |-> rawPackage.fullName,
                                   parsedVersion |-> rawPackage.parsedContent.version])

resolveBestSuitablePackage(requestedPackage, allRawPackages, prevVersions) ==
    IF requestedPackage.type = "virtual"
    THEN Ok([type |-> "virtual", name |-> requestedPackage.name])
    ELSE LET requestedVersion == RequestedVersionFor(requestedPackage, prevVersions)
         IN  IF ~requestedVersion.ok THEN requestedVersion
             ELSE LET suitablePackages ==
                          SuitablePackages(requestedPackage, requestedVersion.value, allRawPackages)
                  IN  IF Len(suitablePackages) = 0 THEN Throw("NoSuitablePackageFound")
                      ELSE LET rawPackage == SortedPackages(suitablePackages)[1]
                           IN  Ok([type |-> "normal",
                                   fullUrl |-> rawPackage.fullUrl,
                                   name |-> rawPackage.fullName,
                                   parsedVersion |-> rawPackage.parsedContent.version])

\* lines 710-729: requestedPackages.reduce(reduceFn, acc); a throw of one step ends it
RECURSIVE ReduceRequestedPackages(_, _, _)
ReduceRequestedPackages(acc, requestedPackages, allRawPackages) ==
    IF Len(requestedPackages) = 0 THEN Ok(acc)
    ELSE LET result == resolveBestSuitablePackage(Head(requestedPackages), allRawPackages,
                                                  PrevVersions(acc))
         IN  IF ~result.ok THEN result
             ELSE ReduceRequestedPackages(Append(acc, result.value), Tail(requestedPackages),
                                          allRawPackages)

\* a resolution of a line that leaves the virtual requests out
resolveNormalPackagesOnly(requestedPackages, allRawPackages) ==
    ReduceRequestedPackages(<<>>,
                            SelectSeq(requestedPackages, LAMBDA request : request.type = "normal"),
                            allRawPackages)

resolveBestSuitablePackages(requestedPackages, allRawPackages) ==
    ReduceRequestedPackages(<<>>, requestedPackages, allRawPackages)

\* lines 736-738: requestedPackageSpecs.map(...), line after line; a throw ends it
RECURSIVE MapRequestedPackageSpecs(_, _, _)
MapRequestedPackageSpecs(done, requestedPackageSpecs, allRawPackages) ==
    IF Len(requestedPackageSpecs) = 0 THEN Ok(done)
    ELSE LET result == resolveBestSuitablePackages(Head(requestedPackageSpecs), allRawPackages)
         IN  IF ~result.ok THEN result
             ELSE MapRequestedPackageSpecs(Append(done, result.value),
                                           Tail(requestedPackageSpecs), allRawPackages)

\* a resolution of the lines that hands the packages of the earlier lines to the next
RECURSIVE MapThreadingVersions(_, _, _, _)
MapThreadingVersions(done, prior, requestedPackageSpecs, allRawPackages) ==
    IF Len(requestedPackageSpecs) = 0 THEN Ok(done)
    ELSE LET result == ReduceRequestedPackages(prior, Head(requestedPackageSpecs),
                                               allRawPackages)
         IN  IF ~result.ok THEN result
             ELSE MapThreadingVersions(
                      Append(done, SubSeq(result.value, Len(prior) + 1, Len(result.value))),
                      result.value, Tail(requestedPackageSpecs), allRawPackages)

ResolveThreadingVersions(requestedPackageSpecs, allRawPackages) ==
    MapThreadingVersions(<<>>, <<>>, requestedPackageSpecs, allRawPackages)

resolveBestSuitablePackageSpecs(requestedPackageSpecs, allRawPackages) ==
    MapRequestedPackageSpecs(<<>>, requestedPackageSpecs, allRawPackages)

----------------------------------------------------------------------------
(* helper.ts: the catalog parser *)

\* what the regular expression of line 134 captures after the "-" that ends group 1:
\* (\d*)\.(\d*)\.(\d*)\-(\d*)\-([^.]*)\.(.*)$ ; every \d* is a maximal digit run,
\* as a digit can stand for none of the separators, and [^.]* ends at the first "."
MatchVersionTail(t) ==
    LET n1 == DigitRun(t)
        t1 == SubSeq(t, n1 + 2, Len(t))
        n2 == DigitRun(t1)
        t2 == SubSeq(t1, n2 + 2, Len(t1))
        n3 == DigitRun(t2)
        t3 == SubSeq(t2, n3 + 2, Len(t2))
        n4 == DigitRun(t3)
        t4 == SubSeq(t3, n4 + 2, Len(t3))
        dot == IndexOf(t4, ".")
    IN  IF /\ Len(t) > n1 /\ t[n1 + 1] = "."
           /\ Len(t1) > n2 /\ t1[n2 + 1] = "."
           /\ Len(t2) > n3 /\ t2[n3 + 1] = "-"
           /\ Len(t3) > n4 /\ t3[n4 + 1] = "-"
           /\ dot > 0
        THEN << [major |-> SubSeq(t, 1, n1), minor |-> SubSeq(t1, 1, n2),
                 patch |-> SubSeq(t2, 1, n3), rev |-> SubSeq(t3, 1, n4),
                 target |-> SubSeq(t4, 1, dot - 1),
                 ext |-> SubSeq(t4, dot + 1, Len(t4))] >>
        ELSE <<>>

\* inpName.match(/^(.*)\-(?:(\d*)\.(\d*)\.(\d*)\-(\d*))\-([^.]*)\.(.*)$/): group 1 is
\* greedy, so the match is the one whose group 1 ends at the last "-" the rest
\* matches after: the positions are tried from the right; <<>> is null
RECURSIVE MatchArtifactNameFrom(_, _)
MatchArtifactNameFrom(inpName, p) ==
    IF p = 0 THEN <<>>
    ELSE IF inpName[p] # "-" THEN MatchArtifactNameFrom(inpName, p - 1)
    ELSE LET tail == MatchVersionTail(SubSeq(inpName, p + 1, Len(inpName)))
         IN  IF tail = <<>> THEN MatchArtifactNameFrom(inpName, p - 1)
             ELSE << [pkgName |-> SubSeq(inpName, 1, p - 1), major |-> tail[1].major,
                      minor |-> tail[1].minor, patch |-> tail[1].patch,
                      rev |-> tail[1].rev, target |-> tail[1].target,
                      ext |-> tail[1].ext] >>

\* a match whose group 1 is lazy: it ends at the first "-" the rest matches after
MatchArtifactNameLazy(inpName) ==
    LET matching == {p \in 1..Len(inpName) :
                        /\ inpName[p] = "-"
                        /\ MatchVersionTail(SubSeq(inpName, p + 1, Len(inpName))) # <<>>}
    IN  IF matching = {} THEN <<>>
        ELSE LET p == CHOOSE q \in matching : \A r \in matching : q <= r
                 tail == MatchVersionTail(SubSeq(inpName, p + 1, Len(inpName)))
             IN  << [pkgName |-> SubSeq(inpName, 1, p - 1), major |-> tail[1].major,
                     minor |-> tail[1].minor, patch |-> tail[1].patch,
                     rev |-> tail[1].rev, target |-> tail[1].target,
                     ext |-> tail[1].ext] >>

MatchArtifactName(inpName) == MatchArtifactNameFrom(inpName, Len(inpName))

\* lines 143-156: the Content built from a match, or the throw of parseIntSafe
ContentOf(m, major, minor, patch, rev) ==
    IF ~major.ok THEN major
    ELSE IF ~minor.ok THEN minor
    ELSE IF ~patch.ok THEN patch
    ELSE IF ~rev.ok THEN rev
    ELSE Ok(<< [ext |-> m.ext, name |-> m.pkgName, target |-> m.target,
                version |-> [major |-> major.value, minor |-> minor.value,
                             patch |-> patch.value, rev |-> rev.value]] >>)

ContentOfMatch(m) ==
    ContentOf(m, parseIntSafe(m.major), parseIntSafe(m.minor),
              parseIntSafe(m.patch), parseIntSafe(m.rev))

\* returns Ok(<<>>) for null, Ok(<<content>>) for a Content, or the throw of parseIntSafe
parseContentFrom(inpName) ==
    LET result == MatchArtifactName(inpName)
    IN  IF result = <<>> THEN Ok(<<>>) ELSE ContentOfMatch(result[1])

HexDigit == Digit \cup {"A", "B", "C", "D", "E", "F", "a", "b", "c", "d", "e", "f"}

\* the character a %XX escape stands for, for the escapes of the modelled listings
EscapedChar(h1, h2) ==
    CASE h1 = "2" /\ h2 \in {"B", "b"} -> "+"
      [] h1 = "2" /\ h2 \in {"E", "e"} -> "."
      [] h1 = "3" /\ h2 \in {"A", "a"} -> ":"
      [] h1 = "7" /\ h2 \in {"E", "e"} -> "~"
      [] OTHER -> "?"

\* the loop of decodeURIComponent: decoded is what the characters read so far gave
RECURSIVE DecodeEscapes(_, _)
DecodeEscapes(decoded, str) ==
    IF Len(str) = 0 THEN Ok(decoded)
    ELSE IF str[1] # "%" THEN DecodeEscapes(Append(decoded, str[1]), Tail(str))
    ELSE IF Len(str) < 3 \/ str[2] \notin HexDigit \/ str[3] \notin HexDigit
    THEN Throw("URIError")
    ELSE DecodeEscapes(Append(decoded, EscapedChar(str[2], str[3])), SubSeq(str, 4, Len(str)))

\* decodeURIComponent: every %XX is replaced by its character; a "%" that is not
\* followed by two hexadecimal digits throws URIError
decodeURIComponent(str) == DecodeEscapes(<<>>, str)

SigSuffix == <<".", "s", "i", "g">>

\* the end of a compressed file, which is not what line 213 looks for
ZstSuffix == <<".", "z", "s", "t">>

DbSuffix == <<".", "d", "b">>

OldSuffix == <<".", "o", "l", "d">>

\* the directory itself, which is not what line 219 looks for
CurrentDirectory == <<".", "/">>

ParentDirectory == <<".", ".", "/">>

\* a RawPackage whose URL is built from the decoded name
RawPackageOfDecodedName(repoLink, rawLinkName, linkName, parsedContent) ==
    [fullName |-> linkName, fullUrl |-> repoLink \o linkName, parsedContent |-> parsedContent]

\* lines 231-233: fullUrl and the RawPackage
RawPackageOf(repoLink, rawLinkName, linkName, parsedContent) ==
    [fullName |-> linkName, fullUrl |-> repoLink \o rawLinkName, parsedContent |-> parsedContent]

\* a loop that tries the artifact grammar first and looks at the suffix only of the
\* names that do not match it
RECURSIVE ExtractLinksGrammarFirst(_, _, _)
ExtractLinksGrammarFirst(acc, repoLink, links) ==
    IF Len(links) = 0 THEN Ok(acc)
    ELSE LET rawLinkName == Head(links)
             decoded == decodeURIComponent(rawLinkName)
             linkName == decoded.value
             skip(reason) ==
                 [acc EXCEPT !.errors.skipped = Append(@, [name |-> linkName, reason |-> reason])]
         IN  IF ~decoded.ok THEN decoded
             ELSE LET parsedContent == parseContentFrom(linkName)
                  IN  IF ~parsedContent.ok THEN parsedContent
                      ELSE IF parsedContent.value # <<>>
                      THEN ExtractLinksGrammarFirst(
                               [acc EXCEPT !.packages =
                                    Append(@, RawPackageOf(repoLink, rawLinkName, linkName,
                                                 parsedContent.value[1]))],
                               repoLink, Tail(links))
                      ELSE IF EndsWith(linkName, SigSuffix)
                      THEN ExtractLinksGrammarFirst(skip("sig package"), repoLink, Tail(links))
                      ELSE IF EndsWith(linkName, DbSuffix)
                      THEN ExtractLinksGrammarFirst(skip(".db file"), repoLink, Tail(links))
                      ELSE IF EndsWith(linkName, OldSuffix)
                      THEN ExtractLinksGrammarFirst(skip(".old file"), repoLink, Tail(links))
                      ELSE IF linkName = ParentDirectory
                      THEN ExtractLinksGrammarFirst(skip("directory file"), repoLink, Tail(links))
                      ELSE ExtractLinksGrammarFirst(
                               [acc EXCEPT !.errors.failed = Append(@, linkName)],
                               repoLink, Tail(links))

\* lines 205-236: the loop over the links; acc is [packages, errors]
RECURSIVE ExtractLinks(_, _, _)
ExtractLinks(acc, repoLink, links) ==
    IF Len(links) = 0 THEN Ok(acc)
    ELSE LET rawLinkName == Head(links)
             decoded == decodeURIComponent(rawLinkName)
             linkName == decoded.value
             skip(reason) ==
                 [acc EXCEPT !.errors.skipped = Append(@, [name |-> linkName, reason |-> reason])]
         IN  IF ~decoded.ok THEN decoded
             ELSE IF EndsWith(linkName, SigSuffix)
             THEN ExtractLinks(skip("sig package"), repoLink, Tail(links))
             ELSE IF EndsWith(linkName, DbSuffix)
             THEN ExtractLinks(skip(".db file"), repoLink, Tail(links))
             ELSE IF EndsWith(linkName, OldSuffix)
             THEN ExtractLinks(skip(".old file"), repoLink, Tail(links))
             ELSE IF linkName = ParentDirectory
             THEN ExtractLinks(skip("directory file"), repoLink, Tail(links))
             ELSE LET parsedContent == parseContentFrom(linkName)
                  IN  IF ~parsedContent.ok THEN parsedContent
                      ELSE IF parsedContent.value = <<>>
                      THEN ExtractLinks([acc EXCEPT !.errors.failed = Append(@, linkName)],
                                        repoLink, Tail(links))
                      ELSE ExtractLinks(
                               [acc EXCEPT !.packages =
                                    Append(@, RawPackageOf(repoLink, rawLinkName, linkName,
                                                 parsedContent.value[1]))],
                               repoLink, Tail(links))

\* html is the fetched document as the HTML parser sees it: whether it has a <pre>
\* element, and the href attributes of the <a> elements in it, in document order
extractPackages(repoLink, html) ==
    IF ~html.pre THEN Throw("MalformedCatalogDocument")
    ELSE ExtractLinks([packages |-> <<>>, errors |-> [skipped |-> <<>>, failed |-> <<>>]],
                      repoLink, html.links)

----------------------------------------------------------------------------
(* helper.ts: the specification parser *)

\* the value DEFAULT_SETTINGS is constructed with (lines 245-248)
InitialSettings == [prependPrefix |-> TRUE, virtual |-> FALSE]

\* lines 253-267: the loop over the characters of the settings string.  settings is
\* the object the loop writes to; the result carries it as left by the loop, also
\* when a character throws
RECURSIVE ParseSettingsChars(_, _)
ParseSettingsChars(str, settings) ==
    IF Len(str) = 0 THEN [ok |-> TRUE, error |-> "", settings |-> settings]
    ELSE IF str[1] = "v" THEN ParseSettingsChars(Tail(str), [settings EXCEPT !.virtual = TRUE])
    ELSE IF str[1] = "n" THEN ParseSettingsChars(Tail(str), [settings EXCEPT !.prependPrefix = FALSE])
    ELSE [ok |-> FALSE, error |-> "InvalidSettingsChar", settings |-> settings]

\* line 251, const settings = DEFAULT_SETTINGS: the object written to is the shared
\* one.  defaults is DEFAULT_SETTINGS before the call; the result's settings field is
\* DEFAULT_SETTINGS after it, which is also the object returned
parseSettings(str, defaults) == ParseSettingsChars(str, defaults)

\* inpName.match(/^(\d*)(?:\.(\d*)(?:\.(\d*)(?:\-(\d*))?)?)?$/): <<>> is null, else the
\* four groups, each <<>> (undefined) or <<digits>>
MatchPartialVersion(inpName) ==
    LET n1 == DigitRun(inpName)
        r1 == SubSeq(inpName, n1 + 1, Len(inpName))
        n2 == DigitRun(Tail(r1))
        r2 == SubSeq(r1, n2 + 2, Len(r1))
        n3 == DigitRun(Tail(r2))
        r3 == SubSeq(r2, n3 + 2, Len(r2))
        n4 == DigitRun(Tail(r3))
        r4 == SubSeq(r3, n4 + 2, Len(r3))
        g1 == <<SubSeq(inpName, 1, n1)>>
        g2 == <<SubSeq(r1, 2, n2 + 1)>>
        g3 == <<SubSeq(r2, 2, n3 + 1)>>
        g4 == <<SubSeq(r3, 2, n4 + 1)>>
    IN  IF Len(r1) = 0 THEN << <<g1, <<>>, <<>>, <<>>>> >>
        ELSE IF r1[1] # "." THEN <<>>
        ELSE IF Len(r2) = 0 THEN << <<g1, g2, <<>>, <<>>>> >>
        ELSE IF r2[1] # "." THEN <<>>
        ELSE IF Len(r3) = 0 THEN << <<g1, g2, g3, <<>>>> >>
        ELSE IF r3[1] # "-" THEN <<>>
        ELSE IF Len(r4) = 0 THEN << <<g1, g2, g3, g4>> >>
        ELSE <<>>

\* lines 298-312: a field is absent (<<>>) or the number parseIntSafe made of the group
PresentField(n) == IF ~n.ok THEN n ELSE Ok(<<n.value>>)

ParseGroup(group) ==
    IF group = <<>> THEN Ok(<<>>) ELSE PresentField(parseIntSafe(group[1]))

\* lines 298-314: the first throw of the four fields, or the version
PartialVersionOf(major, minor, patch, rev) ==
    IF ~major.ok THEN major
    ELSE IF ~minor.ok THEN minor
    ELSE IF ~patch.ok THEN patch
    ELSE IF ~rev.ok THEN rev
    ELSE Ok([major |-> major.value, minor |-> minor.value,
             patch |-> patch.value, rev |-> rev.value])

\* lines 288-314: what is made of the result of the match
PartialVersionOfMatch(result) ==
    IF result = <<>> THEN Throw("MalformedVersionSpec")
    ELSE PartialVersionOf(ParseGroup(result[1][1]), ParseGroup(result[1][2]),
                          ParseGroup(result[1][3]), ParseGroup(result[1][4]))

parsePartialVersion(inpName) ==
    IF inpName = <<"!">> THEN Ok(SameAsRest)
    ELSE IF inpName = <<>> THEN Ok(EMPTY_PARTIAL_VERSION)
    ELSE PartialVersionOfMatch(MatchPartialVersion(inpName))

\* resolvePackageString gives [ok, error, value, defaults]: value the PackageInput,
\* defaults the state of DEFAULT_SETTINGS after the call.  result.settings is
\* DEFAULT_SETTINGS itself (line 321) or the return value of parseSettings (line 348),
\* the same object either way, so the PackageInput's settings read as DEFAULT_SETTINGS
\* reads after the call
PackageStringThrows(e, defaults) ==
    [ok |-> FALSE, error |-> e, value |-> <<>>, defaults |-> defaults]

\* line 356
PackageInput(name, partialVersion, defaults) ==
    [ok |-> TRUE, error |-> "",
     value |-> [name |-> name, partialVersion |-> partialVersion, settings |-> defaults],
     defaults |-> defaults]

\* line 348: the settings string was parsed, after the version was
WithSettings(name1, partialVersion, settings) ==
    IF ~settings.ok THEN PackageStringThrows(settings.error, settings.settings)
    ELSE PackageInput(name1, partialVersion, settings.settings)

\* lines 344-348: the version is parsed first; when it throws, parseSettings is not called
WithVersionAndSettings(name1, partialVersion, settingsStr, defaults) ==
    IF ~partialVersion.ok THEN PackageStringThrows(partialVersion.error, defaults)
    ELSE WithSettings(name1, partialVersion.value, parseSettings(settingsStr, defaults))

\* line 350
WithVersion(name1, partialVersion, defaults) ==
    IF ~partialVersion.ok THEN PackageStringThrows(partialVersion.error, defaults)
    ELSE PackageInput(name1, partialVersion.value, defaults)

\* lines 336-348: parts2 is restStr.split(":")
VersionAndSettings(name1, parts2, defaults) ==
    IF Len(parts2) # 2 THEN PackageStringThrows("MalformedToken", defaults)
    ELSE WithVersionAndSettings(name1, parsePartialVersion(parts2[1]), parts2[2], defaults)

\* lines 333-351
VersionSpecifier(name1, restStr, defaults) ==
    IF Includes(restStr, ":") THEN VersionAndSettings(name1, Split(restStr, ":"), defaults)
    ELSE WithVersion(name1, parsePartialVersion(restStr), defaults)

\* lines 325-351: parts1 is packageStr.split("=")
NameAndSpecifier(parts1, defaults) ==
    IF Len(parts1) # 2 THEN PackageStringThrows("MalformedToken", defaults)
    ELSE VersionSpecifier(parts1[1], parts1[2], defaults)

resolvePackageString(packageStr, defaults) ==
    IF Includes(packageStr, "=") THEN NameAndSpecifier(Split(packageStr, "="), defaults)
    ELSE PackageInput(packageStr, EMPTY_PARTIAL_VERSION, defaults)

MINGW32 == <<"m", "i", "n", "g", "w", "3", "2">>

MINGW64 == <<"m", "i", "n", "g", "w", "6", "4">>

UCRT64 == <<"u", "c", "r", "t", "6", "4">>

CLANG64 == <<"c", "l", "a", "n", "g", "6", "4">>

CLANGARM64 == <<"c", "l", "a", "n", "g", "a", "r", "m", "6", "4">>

MSystem == {MINGW32, MINGW64, UCRT64, CLANG64, CLANGARM64}

\* for an msystem of MSystem; the default case of the switch throws
getArchNameFromMSystem(msystem) ==
    CASE msystem = MINGW32 -> <<"i", "6", "8", "6">>
      [] msystem = MINGW64 -> <<"x", "8", "6", "_", "6", "4">>
      [] msystem = UCRT64 -> <<"u", "c", "r", "t", "-", "x", "8", "6", "_", "6", "4">>
      [] msystem = CLANG64 -> <<"c", "l", "a", "n", "g", "-", "x", "8", "6", "_", "6", "4">>
      [] msystem = CLANGARM64 -> <<"c", "l", "a", "n", "g", "-", "a", "a", "r", "c", "h", "6", "4">>

\* `mingw-w64-${archName}`
Prefix(msystem) == <<"m", "i", "n", "g", "w", "-", "w", "6", "4", "-">> \o getArchNameFromMSystem(msystem)

resolveVirtualName(input, msystem, prependPrefix) ==
    LET prefix == Prefix(msystem)
    IN  IF StartsWith(input, prefix) THEN input
        ELSE IF prependPrefix THEN prefix \o <<"-">> \o input
        ELSE input

resolveNamesFromUserInputName(input, msystem, prependPrefix) ==
    LET prefix == Prefix(msystem)
    IN  IF StartsWith(input, prefix) THEN <<input>>
        ELSE IF ~prependPrefix THEN <<input>>
        ELSE <<input, prefix \o <<"-">> \o input>>

\* lines 429-456: the request made of a PackageInput
RequestedPackageOf(packageInput, msystem) ==
    IF packageInput.settings.virtual
    THEN [type |-> "virtual",
          name |-> resolveVirtualName(packageInput.name, msystem,
                                      packageInput.settings.prependPrefix)]
    ELSE [type |-> "normal",
          names |-> resolveNamesFromUserInputName(packageInput.name, msystem,
                                                  packageInput.settings.prependPrefix),
          originalName |-> packageInput.name,
          partialVersion |-> packageInput.partialVersion]

\* the map of lines 426-457 with one more token done
WithRawPackage(acc, inp, packageInput, msystem) ==
    [packages |-> Append(acc.packages, RequestedPackageOf(packageInput.value, msystem)),
     inputs |-> Append(acc.inputs, [token |-> inp, packageInput |-> packageInput.value]),
     defaults |-> packageInput.defaults]

\* lines 426-457: rawPackages.map(...), token after token.  acc is
\* [packages, inputs, defaults]: the requests made so far, the token and PackageInput
\* each was made of, and DEFAULT_SETTINGS as the tokens so far left it
RECURSIVE MapRawPackages(_, _, _)
RECURSIVE MapNextRawPackages(_, _, _, _)
MapNextRawPackages(acc, packageInput, rawPackages, msystem) ==
    IF ~packageInput.ok
    THEN [ok |-> FALSE, error |-> packageInput.error, value |-> <<>>,
          inputs |-> acc.inputs, defaults |-> packageInput.defaults]
    ELSE MapRawPackages(WithRawPackage(acc, Head(rawPackages), packageInput, msystem),
                        Tail(rawPackages), msystem)

MapRawPackages(acc, rawPackages, msystem) ==
    IF Len(rawPackages) = 0
    THEN [ok |-> TRUE, error |-> "", value |-> acc.packages, inputs |-> acc.inputs,
          defaults |-> acc.defaults]
    ELSE MapNextRawPackages(acc, resolvePackageString(Head(rawPackages), acc.defaults),
                            rawPackages, msystem)

\* the result is [ok, error, value, inputs, defaults]: value the RequestedPackage[]
resolveRequestedPackages(spec, msystem, defaults) ==
    MapRawPackages([packages |-> <<>>, inputs |-> <<>>, defaults |-> defaults],
                   Split(spec, " "), msystem)

\* input.replace(/\r/g, "\n")
ReplaceCarriageReturns(input) ==
    [i \in 1..Len(input) |-> IF input[i] = "\r" THEN "\n" ELSE input[i]]

\* input.replace(/\n\n/g, "\n"): one pass, left to right, matches do not overlap
RECURSIVE ReplaceDoubleNewlines(_)
ReplaceDoubleNewlines(input) ==
    IF Len(input) < 2 THEN input
    ELSE IF input[1] = "\n" /\ input[2] = "\n"
    THEN <<"\n">> \o ReplaceDoubleNewlines(SubSeq(input, 3, Len(input)))
    ELSE <<input[1]>> \o ReplaceDoubleNewlines(Tail(input))

\* line 466: the lines of the input
SpecLines(input) == Split(ReplaceDoubleNewlines(ReplaceCarriageReturns(input)), "\n")

\* line 468: specs.map(...), line after line; packages is what the first of specs gave
RECURSIVE MapSpecs(_, _, _)
RECURSIVE MapNextSpecs(_, _, _, _)
MapNextSpecs(acc, packages, specs, msystem) ==
    IF ~packages.ok
    THEN [ok |-> FALSE, error |-> packages.error, value |-> <<>>,
          inputs |-> Append(acc.inputs, packages.inputs), defaults |-> packages.defaults]
    ELSE MapSpecs([value |-> Append(acc.value, packages.value),
                   inputs |-> Append(acc.inputs, packages.inputs),
                   defaults |-> packages.defaults],
                  Tail(specs), msystem)

MapSpecs(acc, specs, msystem) ==
    IF Len(specs) = 0
    THEN [ok |-> TRUE, error |-> "", value |-> acc.value, inputs |-> acc.inputs,
          defaults |-> acc.defaults]
    ELSE MapNextSpecs(acc, resolveRequestedPackages(Head(specs), msystem, acc.defaults),
                      specs, msystem)

\* the result is [ok, error, value, inputs, defaults]: value the RequestedPackage[][],
\* inputs the tokens parsed with their PackageInputs, line by line, defaults the state
\* of DEFAULT_SETTINGS after the call
resolveRequestedPackageSpecs(input, msystem, defaults) ==
    MapSpecs([value |-> <<>>, inputs |-> <<>>, defaults |-> defaults],
             SpecLines(input), msystem)

\* `https://repo.msys2.org/mingw/${msystem}/`
getRepoLink(msystem) == <<"h", "t", "t", "p", "s", ":", "/", "/", "r", "e", "p", "o", ".", "m", "s", "y", "s", "2", ".", "o", "r", "g", "/", "m", "i", "n", "g", "w", "/">> \o msystem \o <<"/">>

----------------------------------------------------------------------------
(* index.ts *)

UpperCaseLetters ==
    <<"A", "B", "C", "D", "E", "F", "G", "H", "I", "J", "K", "L", "M",
      "N", "O", "P", "Q", "R", "S", "T", "U", "V", "W", "X", "Y", "Z">>

LowerCaseLetters ==
    <<"a", "b", "c", "d", "e", "f", "g", "h", "i", "j", "k", "l", "m",
      "n", "o", "p", "q", "r", "s", "t", "u", "v", "w", "x", "y", "z">>

\* String.prototype.toLowerCase, for ASCII
toLowerCase(str) ==
    [i \in 1..Len(str) |->
        IF \E k \in 1..26 : UpperCaseLetters[k] = str[i]
        THEN LowerCaseLetters[CHOOSE k \in 1..26 : UpperCaseLetters[k] = str[i]]
        ELSE str[i]]

\* the switch of lines 173-190 on the lower-cased input
MSystemOf(lower) ==
    IF lower = <<"c", "l", "a", "n", "g", "3", "2">> THEN Throw("DeprecatedMSystem")
    ELSE IF lower = <<"m", "i", "n", "g", "w", "6", "4", "a", "r", "m">>
    THEN Throw("UnimplementedMSystem")
    ELSE IF lower = <<"m", "s", "y", "s">> THEN Throw("UnimplementedMSystem")
    ELSE IF lower \in MSystem THEN Ok(lower)
    ELSE Throw("InvalidMSystem")

\* a switch on the input as written
toMSystemCaseSensitive(input) == MSystemOf(input)

toMSystem(input) == MSystemOf(toLowerCase(input))

\* path.join(dir, name) of node:path on Windows, for a directory and one segment
\* without separators or dots of its own
PathJoin(dir, name) == dir \o <<"\\">> \o name

\* lines 29-31: the value setupCmd gives cmd
CmdPath(tmp_dir) ==
    PathJoin(PathJoin(tmp_dir, <<"s", "e", "t", "u", "p", "-", "m", "s", "y", "s", "2">>),
             <<"m", "s", "y", "s", "2", ".", "c", "m", "d">>)

\* lines 73 and 87: the file downloadFile writes fileName to
DownloadedFile(tmpDir, fileName) ==
    PathJoin(PathJoin(tmpDir, <<"m", "s", "y", "s", "2", "-", "p", "i", "n", "n", "e", "d", "-",
                                "p", "a", "c", "k", "a", "g", "e", "s">>),
             fileName)

\* what "." of a regular expression does not match
LineTerminators == {"\n", "\r"}

\* the longest prefix of str without a line terminator: what .* matches
RECURSIVE RestOfLine(_)
RestOfLine(str) ==
    IF Len(str) = 0 \/ str[1] \in LineTerminators THEN <<>>
    ELSE <<str[1]>> \o RestOfLine(Tail(str))

\* lines 113-121, on the path with forward slashes
DrivePathToLinuxPath(path) ==
    IF /\ Len(path) >= 3
       /\ \E k \in 1..26 : path[1] \in {UpperCaseLetters[k], LowerCaseLetters[k]}
       /\ path[2] = ":"
       /\ path[3] = "/"
    THEN <<"/">> \o toLowerCase(<<path[1]>>) \o RestOfLine(SubSeq(path, 3, Len(path)))
    ELSE path

windowsPathToLinuxPath(winPath) ==
    DrivePathToLinuxPath([i \in 1..Len(winPath) |->
                             IF winPath[i] = "\\" THEN "/" ELSE winPath[i]])

\* the external operations of a run, as the log ops records them: the GET of
\* getRawBody (line 750), the GET of downloadFile (line 92) with the file written,
\* a call of pacman with its arguments (lines 52-58), and io.rmRF (line 143)
GetOp(url) == [op |-> "get", url |-> url, file |-> <<>>, args |-> <<>>]

DownloadOp(url, file) == [op |-> "download", url |-> url, file |-> file, args |-> <<>>]

PacmanOp(args) == [op |-> "pacman", url |-> <<>>, file |-> <<>>, args |-> args]

RmRFOp(path) == [op |-> "rmRF", url |-> <<>>, file |-> path, args |-> <<>>]

\* line 149
UpdateIndexArgs == << <<"-", "S", "y">> >>

\* lines 151-157
PrerequisiteArgs(msystem) ==
    << <<"-", "S", "y">>, <<"-", "-", "n", "e", "e", "d", "e", "d">>, <<"z", "s", "t", "d">>,
       <<"l", "i", "b", "z", "s", "t", "d">>, <<"t", "a", "r">>,
       <<"m", "i", "n", "g", "w", "-", "w", "6", "4", "-">> \o getArchNameFromMSystem(msystem)
           \o <<"-", "z", "s", "t", "d">> >>

\* line 140
InstallArgs(paths) == << <<"-", "U">> >> \o paths

----------------------------------------------------------------------------
(* Sequences over a set, for the inputs *)

SeqsUpTo(S, n) == UNION {[1..k -> S] : k \in 0..n}

NonEmptySeqsUpTo(S, n) == UNION {[1..k -> S] : k \in 1..n}

\* the concatenation of a sequence of sequences
RECURSIVE Flatten(_)
Flatten(ss) == IF Len(ss) = 0 THEN <<>> ELSE Head(ss) \o Flatten(Tail(ss))

\* the ways to cut a sequence into at most n non-empty consecutive pieces
RECURSIVE CutsUpTo(_, _)
CutsUpTo(s, n) ==
    IF Len(s) = 0 THEN {<<>>}
    ELSE IF n = 0 THEN {}
    ELSE UNION {{<<SubSeq(s, 1, k)>> \o rest : rest \in CutsUpTo(SubSeq(s, k + 1, Len(s)), n - 1)}
                    : k \in 1..Len(s)}

----------------------------------------------------------------------------
(* The inputs of the resolver: catalogs and requests *)

MaxCatalog == 2

MaxRequests == 3

MaxLines == 2

Version(major, minor, patch, rev) ==
    [major |-> major, minor |-> minor, patch |-> patch, rev |-> rev]

\* 1.0.0-1000 and 1.0.1-0 have the same comparison number, 1.1.0-0 a greater one
CatalogVersions == {Version(1, 0, 0, 1000), Version(1, 0, 1, 0), Version(1, 1, 0, 0)}

NameA == <<"a">>

NameB == <<"b">>

NameC == <<"c">>

\* the package names of the listing: a carries the prefix of the environment, b does not
CatalogNames == {Prefix(MINGW64) \o <<"-">> \o NameA, NameB}

\* the file name the repository gives an artifact
FormatArtifactName(name, version, target, ext) ==
    name \o <<"-">> \o NumberToString(version.major) \o <<".">>
         \o NumberToString(version.minor) \o <<".">> \o NumberToString(version.patch)
         \o <<"-">> \o NumberToString(version.rev) \o <<"-">> \o target \o <<".">> \o ext

ArtifactLinks ==
    {FormatArtifactName(name, version, <<"a", "n", "y">>, <<"p", "k", "g", ".", "t", "a", "r", ".", "z", "s", "t">>) :
        name \in CatalogNames, version \in CatalogVersions}

\* the catalogs: what extractPackages makes of a listing of at most MaxCatalog artifacts
Catalogs ==
    {extractPackages(getRepoLink(MINGW64), [pre |-> TRUE, links |-> links]).value.packages :
        links \in SeqsUpTo(ArtifactLinks, MaxCatalog)}

NormalRequest(name, partialVersion, prependPrefix) ==
    [type |-> "normal",
     names |-> resolveNamesFromUserInputName(name, MINGW64, prependPrefix),
     originalName |-> name,
     partialVersion |-> partialVersion]

\* the requests of the tokens a, a=1.0, b=1.0.1:n, b=!, b=:n! ... as the parser builds them
Requests ==
    { NormalRequest(NameA, EMPTY_PARTIAL_VERSION, TRUE),
      NormalRequest(NameA, [EMPTY_PARTIAL_VERSION EXCEPT !.major = <<1>>, !.minor = <<0>>], TRUE),
      NormalRequest(NameB, [EMPTY_PARTIAL_VERSION EXCEPT !.major = <<1>>, !.minor = <<0>>,
                                                         !.patch = <<1>>], FALSE),
      NormalRequest(NameB, SameAsRest, TRUE),
      [type |-> "virtual", name |-> resolveVirtualName(NameC, MINGW64, TRUE)] }

\* at most MaxRequests requests, on at most MaxLines lines, no line empty
RequestSpecs ==
    UNION {CutsUpTo(requests, MaxLines) : requests \in NonEmptySeqsUpTo(Requests, MaxRequests)}

\* installPackages, line 125: paths[0] and paths[1], both empty
NoPaths == [linux |-> <<>>, windows |-> <<>>]

\* a result that is not there yet
Pending == [ok |-> FALSE, error |-> "pending", value |-> <<>>]

\* resolvePackageSpecs, before line 770: no document was read yet
NoBody == [pre |-> FALSE, links |-> <<>>]

----------------------------------------------------------------------------
(* The resolver alone: any requests against any catalog *)

ResolveInit ==
    /\ DEFAULT_SETTINGS = InitialSettings
    /\ pc = "resolve"
    /\ msystemInput = MINGW64
    /\ installInput = <<>>
    /\ os = "win32"
    /\ runnerTemp = <<>>
    /\ cmd = <<>>
    /\ curMSystem = MINGW64
    /\ requested \in {[ok |-> TRUE, error |-> "", value |-> specs, inputs |-> <<>>,
                       defaults |-> InitialSettings] : specs \in RequestSpecs}
    /\ catalog \in Catalogs
    /\ selectedPackages = Pending
    /\ lineIdx = 0
    /\ pkgIdx = 0
    /\ pathsAcc = NoPaths
    /\ body = NoBody
    /\ extracted = Pending
    /\ ops = <<>>
    /\ failed = <<>>

\* lines 786-789 of helper.ts: the call of resolveBestSuitablePackageSpecs
Resolve ==
    /\ pc = "resolve"
    /\ selectedPackages' = resolveBestSuitablePackageSpecs(requested.value, catalog)
    /\ pc' = "resolved"
    /\ UNCHANGED <<body, extracted,
                   DEFAULT_SETTINGS, msystemInput, installInput, os, runnerTemp, cmd, curMSystem,
                   requested, catalog, lineIdx, pkgIdx, pathsAcc, ops, failed>>

ResolveNext == Resolve

ResolveSpec == ResolveInit /\ [][ResolveNext]_vars

----------------------------------------------------------------------------
(* The specification parser alone: calls of resolveRequestedPackageSpecs, one after
   the other in one process, as the parse tests make them *)

MaxPieces == 3

\* tokens: a, b=1, a=1:n, b=:v, b=!, a name with the prefix of mingw64, and tokens
\* with a malformed version, an empty number, an invalid settings character after a
\* valid one, two "=" and two ":"
SpecTokens ==
    { <<"a">>, <<"b", "=", "1">>, <<"a", "=", "1", ":", "n">>, <<"b", "=", ":", "v">>,
      <<"b", "=", "!">>, Prefix(MINGW64) \o <<"-", "a">>,
      <<"a", "=", "x">>, <<"a", "=", ".">>, <<"a", "=", "1", ":", "v", "x">>,
      <<"a", "=", "1", "=", "1">>, <<"a", "=", "1", ":", "n", ":", "v">> }

SpecSeparators == { <<" ">>, <<"\n">>, <<"\r">>, <<"\t">> }

\* the texts: at most MaxPieces tokens and separators, in any order
SpecTexts ==
    {Flatten(pieces) : pieces \in SeqsUpTo(SpecTokens \cup SpecSeparators, MaxPieces)}

ParseMSystems == {MINGW64, CLANG64}

\* no call is under way
NotCalled ==
    [ok |-> FALSE, error |-> "pending", value |-> <<>>, inputs |-> <<>>,
     defaults |-> InitialSettings]

ParseInit ==
    /\ DEFAULT_SETTINGS = InitialSettings
    /\ pc = "idle"
    /\ msystemInput = <<>>
    /\ installInput = <<>>
    /\ os = "win32"
    /\ runnerTemp = <<>>
    /\ cmd = <<>>
    /\ curMSystem = MINGW64
    /\ requested = NotCalled
    /\ catalog = <<>>
    /\ selectedPackages = Pending
    /\ lineIdx = 0
    /\ pkgIdx = 0
    /\ pathsAcc = NoPaths
    /\ body = NoBody
    /\ extracted = Pending
    /\ ops = <<>>
    /\ failed = <<>>

\* a call resolveRequestedPackageSpecs(input, msystem): it reads DEFAULT_SETTINGS as
\* the calls before left it and leaves it as its tokens wrote it
ParseCall(input, msystem) ==
    /\ pc = "idle"
    /\ installInput' = input
    /\ curMSystem' = msystem
    /\ requested' = resolveRequestedPackageSpecs(input, msystem, DEFAULT_SETTINGS)
    /\ DEFAULT_SETTINGS' = requested'.defaults
    /\ pc' = "called"
    /\ UNCHANGED <<body, extracted,
                   msystemInput, os, runnerTemp, cmd, catalog, selectedPackages, lineIdx,
                   pkgIdx, pathsAcc, ops, failed>>

\* the caller is done with the result; the module, and DEFAULT_SETTINGS with it, stays
ParseReturn ==
    /\ pc = "called"
    /\ installInput' = <<>>
    /\ curMSystem' = MINGW64
    /\ requested' = NotCalled
    /\ pc' = "idle"
    /\ UNCHANGED <<body, extracted,
                   DEFAULT_SETTINGS, msystemInput, os, runnerTemp, cmd, catalog,
                   selectedPackages, lineIdx, pkgIdx, pathsAcc, ops, failed>>

ParseNext ==
    \/ \E input \in SpecTexts, msystem \in ParseMSystems : ParseCall(input, msystem)
    \/ ParseReturn

ParseSpec == ParseInit /\ [][ParseNext]_vars

----------------------------------------------------------------------------
(* A run of the action: main of index.ts *)

MSystemInputs ==
    { MINGW64, <<"M", "I", "N", "G", "W", "6", "4">>, CLANG64,
      <<"c", "l", "a", "n", "g", "3", "2">>, <<"m", "s", "y", "s">>, <<>>,
      MINGW32, <<"U", "c", "r", "t", "6", "4">>, CLANGARM64,
      <<"m", "i", "n", "g", "w", "6", "4", "a", "r", "m">> }

\* the install inputs: a; b=1; "a b=!"; a and b=1 on two lines; a, then b=1 with the
\* virtual c, on two lines; the virtual c; a and c on two lines; b=!; and texts with a malformed
\* version, an invalid settings character, two "=", two ":" and a version without digits
InstallInputs ==
    { <<"a">>, <<"b", "=", "1">>, <<"a", " ", "b", "=", "!">>,
      <<"a", "\n", "b", "=", "1">>,
      <<"a", "\n", "b", "=", "1", " ", "c", "=", ":", "v">>,
      <<"c", "=", ":", "v">>, <<"a", "\n", "c">>, <<"b", "=", "!">>,
      <<"a", "=", "x">>, <<"a", " ", "a", "=", "1", ":", "v", "x">>,
      <<"a", "=", "1", "=", "1">>, <<"a", "=", "1", ":", "n", ":", "v">>,
      <<"a", "=", ".">> }

RunnerTemps == { <<>>, <<"D", ":", "\\", "t">>, <<"t">> }

Platforms == {"win32", "linux"}

StatusCodes == {200, 404}

PackageFile(name, version) ==
    FormatArtifactName(name, version, <<"a", "n", "y">>, <<"p", "k", "g">>)

\* the listings fetched: one without <pre>, an empty one, one with the parent
\* directory, a signature and artifacts of a and b, one with b alone, one with a
\* malformed escape and one with a version without digits
Listings ==
    { [pre |-> FALSE, links |-> <<>>],
      [pre |-> TRUE, links |-> <<>>],
      [pre |-> TRUE,
       links |-> << ParentDirectory,
                    PackageFile(Prefix(MINGW64) \o <<"-">> \o NameA, Version(1, 0, 1, 0)),
                    PackageFile(Prefix(MINGW64) \o <<"-">> \o NameA, Version(1, 1, 0, 0)),
                    PackageFile(NameB, Version(1, 1, 0, 0)),
                    PackageFile(NameB, Version(1, 1, 0, 0)) \o SigSuffix >>],
      [pre |-> TRUE, links |-> << PackageFile(NameB, Version(1, 0, 1, 0)) >>],
      [pre |-> TRUE, links |-> << <<"b", "%", "z", "z">> >>],
      [pre |-> TRUE, links |-> << <<"b", "-", ".", "0", ".", "0", "-", "1", "-", "a", ".", "p">> >>] }

Init ==
    /\ DEFAULT_SETTINGS = InitialSettings
    /\ pc = "main"
    /\ msystemInput \in MSystemInputs
    /\ installInput \in InstallInputs
    /\ os \in Platforms
    /\ runnerTemp \in RunnerTemps
    /\ cmd = <<>>
    /\ curMSystem = <<>>
    /\ requested = NotCalled
    /\ catalog = <<>>
    /\ selectedPackages = Pending
    /\ lineIdx = 0
    /\ pkgIdx = 0
    /\ pathsAcc = NoPaths
    /\ body = NoBody
    /\ extracted = Pending
    /\ ops = <<>>
    /\ failed = <<>>

\* lines 19-32
setupCmd ==
    IF runnerTemp = <<>>
    THEN failed' = Append(failed, "RunnerTempUndefined") /\ cmd' = cmd
    ELSE failed' = failed /\ cmd' = CmdPath(runnerTemp)

\* lines 218-224: the catch of main
Catch(error) == failed' = Append(failed, error) /\ pc' = "done"

\* lines 195-213: the platform, the inputs, toMSystem and setupCmd
Main ==
    /\ pc = "main"
    /\ IF os # "win32"
       THEN Catch("UnsupportedPlatform") /\ UNCHANGED <<curMSystem, cmd>>
       ELSE IF ~toMSystem(msystemInput).ok
       THEN Catch(toMSystem(msystemInput).error) /\ UNCHANGED <<curMSystem, cmd>>
       ELSE /\ curMSystem' = toMSystem(msystemInput).value
            /\ setupCmd
            /\ pc' = "parse"
    /\ UNCHANGED <<body, extracted,
                   DEFAULT_SETTINGS, msystemInput, installInput, os, runnerTemp, requested,
                   catalog, selectedPackages, lineIdx, pkgIdx, pathsAcc, ops>>

\* a run that asks for the catalog before it parses the specification
FetchBeforeParse ==
    /\ pc = "parse"
    /\ ops' = Append(ops, GetOp(getRepoLink(curMSystem)))
    /\ requested' = resolveRequestedPackageSpecs(installInput, curMSystem, DEFAULT_SETTINGS)
    /\ DEFAULT_SETTINGS' = requested'.defaults
    /\ IF requested'.ok THEN pc' = "fetch" /\ failed' = failed ELSE Catch(requested'.error)
    /\ UNCHANGED <<body, extracted,
                   msystemInput, installInput, os, runnerTemp, cmd, curMSystem, catalog,
                   selectedPackages, lineIdx, pkgIdx, pathsAcc>>

\* line 215 and lines 765-766 of helper.ts: the specification is parsed
ParseSpecs ==
    /\ pc = "parse"
    /\ requested' = resolveRequestedPackageSpecs(installInput, curMSystem, DEFAULT_SETTINGS)
    /\ DEFAULT_SETTINGS' = requested'.defaults
    /\ IF requested'.ok THEN pc' = "fetch" /\ failed' = failed ELSE Catch(requested'.error)
    /\ UNCHANGED <<body, extracted,
                   msystemInput, installInput, os, runnerTemp, cmd, curMSystem, catalog,
                   selectedPackages, lineIdx, pkgIdx, pathsAcc, ops>>

\* lines 772-782 of helper.ts: what extractPackages made of the body
Extracted(result) ==
    /\ extracted' = result
    /\ IF ~result.ok THEN Catch(result.error) /\ catalog' = catalog
       ELSE catalog' = result.value.packages /\ pc' = "resolve" /\ failed' = failed

\* lines 768-782 of helper.ts: getRawBody and extractPackages
FetchCatalog(statusCode, html) ==
    /\ pc = "fetch"
    /\ ops' = Append(ops, GetOp(getRepoLink(curMSystem)))
    /\ IF statusCode # 200
       THEN Catch("CatalogFetchFailed") /\ UNCHANGED <<catalog, body, extracted>>
       ELSE body' = html /\ Extracted(extractPackages(getRepoLink(curMSystem), html))
    /\ UNCHANGED <<DEFAULT_SETTINGS, msystemInput, installInput, os, runnerTemp, cmd,
                   curMSystem, requested, selectedPackages, lineIdx, pkgIdx, pathsAcc>>

\* line 215: resolvePackageSpecs threw what the resolver threw
ResolutionThrew ==
    /\ pc = "resolved"
    /\ ~selectedPackages.ok
    /\ Catch(selectedPackages.error)
    /\ UNCHANGED <<body, extracted,
                   DEFAULT_SETTINGS, msystemInput, installInput, os, runnerTemp, cmd, curMSystem,
                   requested, catalog, selectedPackages, lineIdx, pkgIdx, pathsAcc, ops>>

\* the two calls of pacman of installPrerequisites; exit1 and exit2 tell whether
\* the calls end well
PrerequisitesInstalled(exit1, exit2) ==
    /\ ops' = IF cmd = <<>> THEN ops
              ELSE IF ~exit1 THEN Append(ops, PacmanOp(UpdateIndexArgs))
              ELSE ops \o <<PacmanOp(UpdateIndexArgs), PacmanOp(PrerequisiteArgs(curMSystem))>>
    /\ failed' = IF cmd = <<>> THEN Append(failed, "AssertionError")
                 ELSE IF ~exit1 \/ ~exit2 THEN Append(failed, "InstallerFailed")
                 ELSE failed
    /\ IF cmd # <<>> /\ exit1 /\ exit2
       THEN pc' = "install" /\ lineIdx' = 1 /\ pkgIdx' = 1 /\ pathsAcc' = NoPaths
       ELSE pc' = "done" /\ UNCHANGED <<lineIdx, pkgIdx, pathsAcc>>
    /\ UNCHANGED <<body, extracted,
                   DEFAULT_SETTINGS, msystemInput, installInput, os, runnerTemp, cmd, curMSystem,
                   requested, catalog, selectedPackages>>

\* prerequisites that are installed whatever the resolution gave
InstallPrerequisitesAnyway(exit1, exit2) ==
    pc = "resolved" /\ PrerequisitesInstalled(exit1, exit2)

\* lines 217 and 147-159: resolvePackageSpecs returned, installMultiplePackageSpecs
\* begins with installPrerequisites (runMsys asserts cmd, line 38)
InstallPrerequisites(exit1, exit2) ==
    pc = "resolved" /\ selectedPackages.ok /\ PrerequisitesInstalled(exit1, exit2)

\* the package the loop of installPackages (line 127) is at
CurrentBatch == selectedPackages.value[lineIdx]

\* lines 128-131: a virtual package is passed on by its name
PushVirtual ==
    /\ pc = "install"
    /\ pkgIdx <= Len(CurrentBatch)
    /\ CurrentBatch[pkgIdx].type = "virtual"
    /\ pathsAcc' = [pathsAcc EXCEPT !.linux = Append(@, CurrentBatch[pkgIdx].name)]
    /\ pkgIdx' = pkgIdx + 1
    /\ UNCHANGED <<body, extracted,
                   DEFAULT_SETTINGS, pc, msystemInput, installInput, os, runnerTemp, cmd,
                   curMSystem, requested, catalog, selectedPackages, lineIdx, ops, failed>>

\* lines 133-137 and downloadFile: a normal package is downloaded; statusCode is the
\* status of the response
DownloadPackage(statusCode) ==
    /\ pc = "install"
    /\ pkgIdx <= Len(CurrentBatch)
    /\ CurrentBatch[pkgIdx].type # "virtual"
    /\ IF runnerTemp = <<>>
       THEN Catch("RunnerTempUndefined") /\ UNCHANGED <<ops, pathsAcc, pkgIdx>>
       ELSE /\ ops' = Append(ops, DownloadOp(CurrentBatch[pkgIdx].fullUrl,
                                             DownloadedFile(runnerTemp, CurrentBatch[pkgIdx].name)))
            /\ IF statusCode # 200
               THEN Catch("ArtifactDownloadFailed") /\ UNCHANGED <<pathsAcc, pkgIdx>>
               ELSE /\ pathsAcc' =
                          [linux |-> Append(pathsAcc.linux,
                                            windowsPathToLinuxPath(
                                                DownloadedFile(runnerTemp, CurrentBatch[pkgIdx].name))),
                           windows |-> Append(pathsAcc.windows,
                                              DownloadedFile(runnerTemp, CurrentBatch[pkgIdx].name))]
                    /\ pkgIdx' = pkgIdx + 1
                    /\ UNCHANGED <<pc, failed>>
    /\ UNCHANGED <<body, extracted,
                   DEFAULT_SETTINGS, msystemInput, installInput, os, runnerTemp, cmd, curMSystem,
                   requested, catalog, selectedPackages, lineIdx>>

\* the batch is installed with the paths arguments, the files of paths[1] are removed
\* and the next batch begins
BatchInstalled(arguments, exitOk) ==
    /\ ops' = IF cmd = <<>> THEN ops
              ELSE IF ~exitOk THEN Append(ops, PacmanOp(InstallArgs(arguments)))
              ELSE Append(ops, PacmanOp(InstallArgs(arguments)))
                       \o [i \in 1..Len(pathsAcc.windows) |-> RmRFOp(pathsAcc.windows[i])]
    /\ failed' = IF cmd = <<>> THEN Append(failed, "AssertionError")
                 ELSE IF ~exitOk THEN Append(failed, "InstallerFailed")
                 ELSE failed
    /\ IF cmd = <<>> \/ ~exitOk THEN pc' = "done" /\ UNCHANGED <<lineIdx, pkgIdx, pathsAcc>>
       ELSE IF lineIdx = Len(selectedPackages.value)
       THEN pc' = "done" /\ UNCHANGED <<lineIdx, pkgIdx, pathsAcc>>
       ELSE pc' = pc /\ lineIdx' = lineIdx + 1 /\ pkgIdx' = 1 /\ pathsAcc' = NoPaths
    /\ UNCHANGED <<body, extracted,
                   DEFAULT_SETTINGS, msystemInput, installInput, os, runnerTemp, cmd, curMSystem,
                   requested, catalog, selectedPackages>>

\* an installer call that is handed the downloaded files by their Windows paths
PacmanInstallWindowsPaths(exitOk) ==
    /\ pc = "install"
    /\ pkgIdx > Len(CurrentBatch)
    /\ BatchInstalled(pathsAcc.windows, exitOk)

\* lines 140-144 and 167-169: pacman -U with paths[0], then io.rmRF of every file of
\* paths[1], then the next batch; exitOk tells whether pacman ends well
PacmanInstall(exitOk) ==
    /\ pc = "install"
    /\ pkgIdx > Len(CurrentBatch)
    /\ BatchInstalled(pathsAcc.linux, exitOk)

Next ==
    \/ Main
    \/ ParseSpecs
    \/ \E statusCode \in StatusCodes, html \in Listings : FetchCatalog(statusCode, html)
    \/ Resolve
    \/ ResolutionThrew
    \/ \E exit1, exit2 \in BOOLEAN : InstallPrerequisites(exit1, exit2)
    \/ PushVirtual
    \/ \E statusCode \in StatusCodes : DownloadPackage(statusCode)
    \/ \E exitOk \in BOOLEAN : PacmanInstall(exitOk)

Spec == Init /\ [][Next]_vars

----------------------------------------------------------------------------
(* The catalog parser alone: extractPackages on any listing *)

MaxLinks == 2

\* package names: b, and a name that has the shape of an artifact name itself
ArtifactNames == {NameB, <<"b", "-", "2", ".", "0", ".", "0", "-", "2", "-", "x", ".", "y">>}

ArtifactVersions == {Version(1, 0, 1, 0), Version(10, 0, 0, 7)}

\* targets: any, and one with a "."
ArtifactTargets == {<<"a", "n", "y">>, <<"x", ".", "y">>}

\* extensions: pkg, and one with the shape of a version and a target in it
ArtifactExts == {<<"p", "k", "g">>,
                 <<"p", "-", "2", ".", "0", ".", "0", "-", "2", "-", "t", ".", "e">>}

\* the hrefs of artifacts, as the repository formats them
FormattedLinks ==
    {FormatArtifactName(name, version, target, ext) :
        name \in ArtifactNames, version \in ArtifactVersions,
        target \in ArtifactTargets, ext \in ArtifactExts}

\* the other hrefs of a listing: the parent directory, a signature, database files,
\* old files, an artifact with the extension db, a name with an escaped "+", a
\* malformed escape, a version without digits, and a name that is no artifact
OtherLinks ==
    { <<".", ".", "/">>,
      PackageFile(NameB, Version(1, 0, 1, 0)) \o SigSuffix,
      <<"c">> \o DbSuffix,
      <<"c">> \o DbSuffix \o <<".", "t", "a", "r", ".", "z", "s", "t">>,
      <<"c">> \o OldSuffix,
      PackageFile(NameB, Version(1, 0, 1, 0)) \o OldSuffix,
      FormatArtifactName(NameB, Version(1, 0, 1, 0), <<"a", "n", "y">>, <<"d", "b">>),
      <<"b", "%", "2", "B", "-", "1", ".", "0", ".", "1", "-", "0", "-", "a", "n", "y", ".", "p", "k", "g">>,
      <<"b", "%", "z", "z">>,
      <<"b", "-", ".", "0", ".", "0", "-", "1", "-", "a", ".", "p">>,
      <<"c", ".", "f", "i", "l", "e", "s">> }

\* the documents: one without a <pre> element, and the listings of at most MaxLinks links
Documents ==
    {[pre |-> FALSE, links |-> <<>>]}
        \cup {[pre |-> TRUE, links |-> links] :
                 links \in SeqsUpTo(FormattedLinks \cup OtherLinks, MaxLinks)}

ExtractInit ==
    /\ DEFAULT_SETTINGS = InitialSettings
    /\ pc = "extract"
    /\ msystemInput = <<>>
    /\ installInput = <<>>
    /\ os = "win32"
    /\ runnerTemp = <<>>
    /\ cmd = <<>>
    /\ curMSystem \in ParseMSystems
    /\ requested = NotCalled
    /\ catalog = <<>>
    /\ selectedPackages = Pending
    /\ lineIdx = 0
    /\ pkgIdx = 0
    /\ pathsAcc = NoPaths
    /\ body \in Documents
    /\ extracted = Pending
    /\ ops = <<>>
    /\ failed = <<>>

\* line 772 of helper.ts: the call of extractPackages; line 784: allRawPackages
Extract ==
    /\ pc = "extract"
    /\ extracted' = extractPackages(getRepoLink(curMSystem), body)
    /\ catalog' = IF extracted'.ok THEN extracted'.value.packages ELSE catalog
    /\ pc' = "extracted"
    /\ UNCHANGED <<body, DEFAULT_SETTINGS, msystemInput, installInput, os, runnerTemp, cmd,
                   curMSystem, requested, selectedPackages, lineIdx, pkgIdx, pathsAcc, ops,
                   failed>>

ExtractNext == Extract

ExtractSpec == ExtractInit /\ [][ExtractNext]_vars

----------------------------------------------------------------------------
(* Properties of the resolver *)

Resolved == pc = "resolved"

\* a field of a partial version is absent or is the number v
FieldAgrees(field, v) == field = <<>> \/ field = <<v>>

\* the places of the catalog entries a normal request with a partial version may take:
\* the parsed name is a candidate name and every given field agrees
CandidateEntries(requestedPackage) ==
    {i \in 1..Len(catalog) :
        /\ \E n \in 1..Len(requestedPackage.names) :
               requestedPackage.names[n] = catalog[i].parsedContent.name
        /\ FieldAgrees(requestedPackage.partialVersion.major, catalog[i].parsedContent.version.major)
        /\ FieldAgrees(requestedPackage.partialVersion.minor, catalog[i].parsedContent.version.minor)
        /\ FieldAgrees(requestedPackage.partialVersion.patch, catalog[i].parsedContent.version.patch)
        /\ FieldAgrees(requestedPackage.partialVersion.rev, catalog[i].parsedContent.version.rev)}

Weight(version) ==
    version.major * 1000000000 + version.minor * 1000000 + version.patch * 1000 + version.rev

IsPartialRequest(requestedPackage) ==
    requestedPackage.type = "normal" /\ "type" \notin DOMAIN requestedPackage.partialVersion

IsSameAsRestRequest(requestedPackage) ==
    requestedPackage.type = "normal" /\ "type" \in DOMAIN requestedPackage.partialVersion

\* the catalog entry i is what chosen was built from
BuiltFrom(chosen, i) ==
    /\ chosen.type = "normal"
    /\ chosen.name = catalog[i].fullName
    /\ chosen.fullUrl = catalog[i].fullUrl
    /\ chosen.parsedVersion = catalog[i].parsedContent.version

\* C1: when the resolution succeeds, the entry chosen for a normal request with a
\* partial version is a catalog entry with a candidate name and a compatible version,
\* and no such entry has a greater comparison weight
C1_GreatestWeight ==
    Resolved /\ selectedPackages.ok =>
        \A l \in 1..Len(requested.value) : \A j \in 1..Len(requested.value[l]) :
            IsPartialRequest(requested.value[l][j]) =>
                /\ \E i \in CandidateEntries(requested.value[l][j]) :
                       BuiltFrom(selectedPackages.value[l][j], i)
                /\ \A i \in CandidateEntries(requested.value[l][j]) :
                       Weight(catalog[i].parsedContent.version)
                           <= Weight(selectedPackages.value[l][j].parsedVersion)

\* C1 happens: a request with two candidates of different weight was resolved, and the
\* one chosen is not the first of them in the catalog
C1_Witness ==
    /\ Resolved /\ selectedPackages.ok
    /\ \E l \in 1..Len(requested.value) : \E j \in 1..Len(requested.value[l]) :
           /\ IsPartialRequest(requested.value[l][j])
           /\ \E i1, i2 \in CandidateEntries(requested.value[l][j]) :
                  /\ i1 < i2
                  /\ Weight(catalog[i1].parsedContent.version)
                         < Weight(catalog[i2].parsedContent.version)
                  /\ BuiltFrom(selectedPackages.value[l][j], i2)

\* line l begins with a request with a partial version that is followed by a "!"
PinnedPair(l) ==
    /\ Len(requested.value[l]) >= 2
    /\ IsPartialRequest(requested.value[l][1])
    /\ IsSameAsRestRequest(requested.value[l][2])

\* the catalog entries with a candidate name of the request and exactly this version
ExactEntries(requestedPackage, version) ==
    {i \in 1..Len(catalog) :
        /\ \E n \in 1..Len(requestedPackage.names) :
               requestedPackage.names[n] = catalog[i].parsedContent.name
        /\ catalog[i].parsedContent.version = version}

\* C2: in a line "A=<partial> B=!" that was resolved, B has the four version fields of
\* the entry chosen for A and is an entry with one of B's names; when A is resolved
\* in the first line and no entry with one of B's names has that version, the
\* resolution fails with NoSuitablePackageFound
C2_ExactSiblingVersion ==
    Resolved =>
        /\ selectedPackages.ok =>
               \A l \in 1..Len(requested.value) :
                   PinnedPair(l) =>
                       \E i \in ExactEntries(requested.value[l][2],
                                             selectedPackages.value[l][1].parsedVersion) :
                           BuiltFrom(selectedPackages.value[l][2], i)
        /\ PinnedPair(1) /\ CandidateEntries(requested.value[1][1]) # {} =>
               \A i \in CandidateEntries(requested.value[1][1]) :
                   /\ \A k \in CandidateEntries(requested.value[1][1]) :
                          \/ Weight(catalog[k].parsedContent.version)
                                 < Weight(catalog[i].parsedContent.version)
                          \/ Weight(catalog[k].parsedContent.version)
                                 = Weight(catalog[i].parsedContent.version) /\ i <= k
                   /\ ExactEntries(requested.value[1][2], catalog[i].parsedContent.version) = {}
                   => selectedPackages = Throw("NoSuitablePackageFound")

\* C2 happens: B was resolved to the version of A although the catalog has an entry
\* with one of B's names and another version
C2_Witness ==
    /\ Resolved /\ selectedPackages.ok
    /\ \E l \in 1..Len(requested.value) :
           /\ PinnedPair(l)
           /\ selectedPackages.value[l][2].parsedVersion
                  = selectedPackages.value[l][1].parsedVersion
           /\ \E i \in 1..Len(catalog) :
                  /\ catalog[i].parsedContent.name = NameB
                  /\ catalog[i].parsedContent.version
                         # selectedPackages.value[l][1].parsedVersion

\* the "!" at place j of line l has no normal request before it in its line
UnanchoredMarker(l, j) ==
    /\ IsSameAsRestRequest(requested.value[l][j])
    /\ \A k \in 1..(j - 1) : requested.value[l][k].type = "virtual"

\* C3: a "!" with no normal package resolved before it in its line makes the
\* resolution fail, whatever the catalog; when the lines before it resolve, the
\* failure is NoPriorVersionToReference and not NoSuitablePackageFound
C3_NoPriorVersion ==
    Resolved =>
        \A l \in 1..Len(requested.value) : \A j \in 1..Len(requested.value[l]) :
            UnanchoredMarker(l, j) =>
                /\ ~selectedPackages.ok
                /\ (\A k \in 1..(l - 1) :
                        resolveBestSuitablePackages(requested.value[k], catalog).ok)
                       => selectedPackages = Throw("NoPriorVersionToReference")

\* C3 happens: a "!" preceded only by a virtual package, in a line after a resolved
\* one, with an entry of its name in the catalog, ended the resolution
C3_Witness ==
    /\ Resolved
    /\ selectedPackages = Throw("NoPriorVersionToReference")
    /\ Len(requested.value) = 2
    /\ Len(requested.value[2]) = 2
    /\ requested.value[2][1].type = "virtual"
    /\ UnanchoredMarker(2, 2)
    /\ \E i \in 1..Len(catalog) : catalog[i].parsedContent.name = NameB

\* C4: the batch of a line is what the line gives when it is resolved alone, whatever
\* the other lines are; the resolution fails exactly when a line alone fails, with the
\* failure of the first such line; a "!" that is first in its line fails the
\* resolution whatever the lines before it resolved
C4_LinesIndependent ==
    Resolved =>
        /\ selectedPackages.ok
               <=> \A l \in 1..Len(requested.value) :
                       resolveBestSuitablePackages(requested.value[l], catalog).ok
        /\ selectedPackages.ok =>
               /\ Len(selectedPackages.value) = Len(requested.value)
               /\ \A l \in 1..Len(requested.value) :
                      selectedPackages.value[l]
                          = resolveBestSuitablePackages(requested.value[l], catalog).value
        /\ \A l \in 1..Len(requested.value) :
               /\ ~resolveBestSuitablePackages(requested.value[l], catalog).ok
               /\ \A k \in 1..(l - 1) :
                      resolveBestSuitablePackages(requested.value[k], catalog).ok
               => selectedPackages = resolveBestSuitablePackages(requested.value[l], catalog)
        /\ \A l \in 1..Len(requested.value) :
               IsSameAsRestRequest(requested.value[l][1]) => ~selectedPackages.ok

\* C4 happens: two lines were resolved, and the "!" of the second line took a version
\* that differs from the one a package of the first line was resolved to
C4_Witness ==
    /\ Resolved /\ selectedPackages.ok
    /\ Len(requested.value) = 2
    /\ \E j \in 1..Len(requested.value[2]) : \E k \in 1..Len(requested.value[1]) :
           /\ IsSameAsRestRequest(requested.value[2][j])
           /\ selectedPackages.value[1][k].type = "normal"
           /\ selectedPackages.value[1][k].parsedVersion
                  # selectedPackages.value[2][j].parsedVersion

----------------------------------------------------------------------------
(* Properties of the specification parser *)

Called == pc = "called"

\* the places of the tokens the call parsed, <<line, place>>
ParsedPlaces ==
    {place \in (1..Len(requested.inputs)) \X (1..(2 * MaxPieces + 1)) :
        place[2] <= Len(requested.inputs[place[1]])}

\* the name written in a token: what stands before the first "="
WrittenName(token) ==
    IF \E i \in 1..Len(token) : token[i] = "="
    THEN SubSeq(token, 1, (CHOOSE i \in 1..Len(token) :
                               token[i] = "=" /\ \A k \in 1..(i - 1) : token[k] # "=") - 1)
    ELSE token

\* the token has an "n" after its ":"
WritesNoPrefix(token) ==
    \E i, k \in 1..Len(token) : i < k /\ token[i] = ":" /\ token[k] = "n"

\* `mingw-w64-${archName}` of the environment of the call
EnvironmentPrefix ==
    <<"m", "i", "n", "g", "w", "-", "w", "6", "4", "-">> \o getArchNameFromMSystem(curMSystem)

\* C8: every token parsed (a name, or name=version) that carries no settings string
\* has the default settings, prefix prepended and not virtual, whatever was parsed
\* before it in the line, in the lines before it or in the calls before this one
C8_DefaultSettings ==
    Called =>
        \A place \in ParsedPlaces :
            /\ requested.inputs[place[1]][place[2]].token # <<>>
            /\ \A i \in 1..Len(requested.inputs[place[1]][place[2]].token) :
                   requested.inputs[place[1]][place[2]].token[i] # ":"
            => /\ requested.inputs[place[1]][place[2]].packageInput.settings.prependPrefix
               /\ ~requested.inputs[place[1]][place[2]].packageInput.settings.virtual

\* the lines of the text: "\r" counts as "\n", one of two "\n" in a row is dropped
TextLines(text) ==
    Split(ReplaceDoubleNewlines([i \in 1..Len(text) |->
                                    IF text[i] = "\r" THEN "\n" ELSE text[i]]), "\n")

\* the line has an empty token: it is empty, begins or ends with a space, or has two
\* spaces in a row
HasEmptyToken(line) ==
    \/ Len(line) = 0
    \/ line[1] = " "
    \/ line[Len(line)] = " "
    \/ \E i \in 1..(Len(line) - 1) : line[i] = " " /\ line[i + 1] = " "

\* C9: a text with a line that yields an empty token is rejected, with
\* EmptyPackageToken when the empty token is the first token of the text, and no
\* request is ever made of an empty token
C9_EmptyTokenRejected ==
    Called =>
        /\ (\E l \in 1..Len(TextLines(installInput)) :
                HasEmptyToken(TextLines(installInput)[l]))
               => ~requested.ok
        /\ (Len(TextLines(installInput)[1]) = 0 \/ TextLines(installInput)[1][1] = " ")
               => requested.error = "EmptyPackageToken"
        /\ \A place \in ParsedPlaces : requested.inputs[place[1]][place[2]].token # <<>>

\* C10: the candidate names of a normal request made of a token are the name written
\* alone when it starts with the prefix of the environment or when the token's
\* settings have "n", and else the name written followed by prefix-name;
\* originalName is the name written
C10_CandidateNames ==
    Called /\ requested.ok =>
        \A place \in ParsedPlaces :
            /\ requested.inputs[place[1]][place[2]].token # <<>>
            /\ requested.value[place[1]][place[2]].type = "normal"
            =>
                /\ requested.value[place[1]][place[2]].originalName
                       = WrittenName(requested.inputs[place[1]][place[2]].token)
                /\ requested.value[place[1]][place[2]].names
                       = IF \/ StartsWith(WrittenName(requested.inputs[place[1]][place[2]].token),
                                          EnvironmentPrefix)
                             \/ WritesNoPrefix(requested.inputs[place[1]][place[2]].token)
                         THEN <<WrittenName(requested.inputs[place[1]][place[2]].token)>>
                         ELSE <<WrittenName(requested.inputs[place[1]][place[2]].token),
                                EnvironmentPrefix \o <<"-">>
                                    \o WrittenName(requested.inputs[place[1]][place[2]].token)>>

----------------------------------------------------------------------------
(* Properties of a run *)

\* the resolution of the run was made and failed
ResolutionFailed == ~selectedPackages.ok /\ selectedPackages.error # "pending"

\* C5: every download of an artifact and every call of pacman of a run happens after
\* every request of every line was resolved; when the resolution fails, nothing is
\* downloaded and pacman is never called
C5_NothingInstalledUnresolved ==
    \A i \in 1..Len(ops) :
        ops[i].op \in {"download", "pacman"} =>
            /\ selectedPackages.ok
            /\ Len(selectedPackages.value) = Len(requested.value)
            /\ \A l \in 1..Len(requested.value) :
                   Len(selectedPackages.value[l]) = Len(requested.value[l])

\* C5 happens: with cmd set, the first line would resolve alone, the second does not,
\* and the run ended
C5_Witness ==
    /\ pc = "done"
    /\ cmd # <<>>
    /\ ResolutionFailed
    /\ Len(requested.value) = 2
    /\ resolveBestSuitablePackages(requested.value[1], catalog).ok
    /\ \A i \in 1..Len(ops) : ops[i].op = "get"

\* the downloads and the calls of pacman -U of the run, in order
InstallOps ==
    LET isInstallOp(o) ==
            o.op = "download" \/ (o.op = "pacman" /\ o.args[1] = <<"-", "U">>)
    IN  SelectSeq(ops, isInstallOp)

\* the file of a normal package in the download folder
LocalFile(package) ==
    runnerTemp \o <<"\\", "m", "s", "y", "s", "2", "-", "p", "i", "n", "n", "e", "d", "-",
                    "p", "a", "c", "k", "a", "g", "e", "s", "\\">> \o package.name

\* what pacman -U is handed for a package: the path of the file as msys2 sees it, or
\* the name of a virtual package
InstallArgument(package) ==
    IF package.type = "virtual" THEN package.name
    ELSE windowsPathToLinuxPath(LocalFile(package))

\* the downloads of the normal packages of a batch, in order, then one pacman -U
ExpectedBatchOps(batch) ==
    LET isNormal(package) == package.type = "normal"
        normal == SelectSeq(batch, isNormal)
    IN  [i \in 1..Len(normal) |->
            [op |-> "download", url |-> normal[i].fullUrl, file |-> LocalFile(normal[i]),
             args |-> <<>>]]
        \o << [op |-> "pacman", url |-> <<>>, file |-> <<>>,
               args |-> << <<"-", "U">> >> \o [i \in 1..Len(batch) |-> InstallArgument(batch[i])]] >>

RECURSIVE ExpectedInstallOps(_)
ExpectedInstallOps(batches) ==
    IF Len(batches) = 0 THEN <<>>
    ELSE ExpectedBatchOps(Head(batches)) \o ExpectedInstallOps(Tail(batches))

IsPrefixOf(s, t) == Len(s) <= Len(t) /\ s = SubSeq(t, 1, Len(s))

\* C6: for a resolved specification, the downloads and the calls of pacman -U are, at
\* any time, the beginning of: line after line, the downloads of the line's normal
\* packages in order, then one pacman -U with the line's packages in resolved order
\* (path of the file for a normal package, name for a virtual one); a run that ends
\* without a failure has made all of them
C6_OneInstallPerLine ==
    selectedPackages.ok =>
        /\ IsPrefixOf(InstallOps, ExpectedInstallOps(selectedPackages.value))
        /\ pc = "done" /\ failed = <<>>
               => InstallOps = ExpectedInstallOps(selectedPackages.value)

\* C6 happens: a run of two lines ended without a failure, and the second line has a
\* virtual package next to a normal one
C6_Witness ==
    /\ pc = "done"
    /\ failed = <<>>
    /\ selectedPackages.ok
    /\ Len(selectedPackages.value) = 2
    /\ \E j, k \in 1..Len(selectedPackages.value[2]) :
           /\ selectedPackages.value[2][j].type = "normal"
           /\ selectedPackages.value[2][k].type = "virtual"
    /\ \E i \in 1..Len(ops) : ops[i].op = "rmRF"

GrammarErrors == {"MalformedVersionSpec", "NotAnInteger", "InvalidSettingsChar", "MalformedToken"}

\* C7: when parsing the specification fails, no request for the catalog (and no other
\* external operation) is ever made
C7_NoFetchAfterGrammarError ==
    ~requested.ok /\ requested.error \in GrammarErrors =>
        /\ \A i \in 1..Len(ops) : ops[i].op # "get"
        /\ pc = "done"
        /\ catalog = <<>>

\* C7 happens: a run with cmd set ended on a token with two ":"
C7_Witness ==
    /\ pc = "done"
    /\ cmd # <<>>
    /\ requested.error = "MalformedToken"
    /\ failed = <<"MalformedToken">>
    /\ ops = <<>>

----------------------------------------------------------------------------
(* Properties of the lines of a specification text *)

\* a space or a tab
IsIndentation(c) == c \in {" ", "\t"}

\* the line without its leading indentation
RECURSIVE StripIndentation(_)
StripIndentation(line) ==
    IF Len(line) > 0 /\ IsIndentation(line[1]) THEN StripIndentation(Tail(line)) ELSE line

\* the non-blank lines L1..Ln of the text, without their indentation
NonBlankLines(text) ==
    SelectSeq([l \in 1..Len(TextLines(text)) |-> StripIndentation(TextLines(text)[l])],
              LAMBDA line : line # <<>>)

\* the package tokens of a line
PackageTokens(line) == SelectSeq(Split(line, " "), LAMBDA token : token # <<>>)

\* the name a request carries
RequestName(request) ==
    IF request.type = "virtual" THEN request.name ELSE request.originalName

\* C11: blank lines and the indentation of a line are ignored and CRLF is one line
\* break: a text that parses gives one batch for each of its non-blank lines, batch i
\* with one request for each package token of line i, and no request has an empty
\* name or a name with a space, a tab or a line break in it
C11_BlankLinesAndIndentation ==
    Called /\ requested.ok =>
        /\ Len(requested.value) = Len(NonBlankLines(installInput))
        /\ \A i \in 1..Len(requested.value) :
               i <= Len(NonBlankLines(installInput)) =>
                   Len(requested.value[i]) = Len(PackageTokens(NonBlankLines(installInput)[i]))
        /\ \A place \in ParsedPlaces :
               /\ RequestName(requested.value[place[1]][place[2]]) # <<>>
               /\ \A i \in 1..Len(RequestName(requested.value[place[1]][place[2]])) :
                      RequestName(requested.value[place[1]][place[2]])[i]
                          \notin {" ", "\t", "\n", "\r"}

\* what the caller sees of a call: whether it threw, and the batches it returned
Outcome(result) == [ok |-> result.ok, error |-> result.error, value |-> result.value]

\* C12: parsing is a function of the text and the environment alone: the call just
\* made, repeated next in the same process with the same text and environment,
\* returns what it returned
C12_ParseRepeatable ==
    Called =>
        Outcome(resolveRequestedPackageSpecs(installInput, curMSystem, DEFAULT_SETTINGS))
            = Outcome(requested)

----------------------------------------------------------------------------
(* Properties of the "!" marker *)

\* a normal request that carries a partial version with at least one field
HasExplicitVersion(requestedPackage) ==
    /\ IsPartialRequest(requestedPackage)
    /\ requestedPackage.partialVersion # EMPTY_PARTIAL_VERSION

\* C13: a "!" with no normal request with an explicit partial version before it in
\* its line does not resolve to a package: the resolution fails
C13_MarkerNeedsExplicitVersion ==
    Resolved =>
        \A l \in 1..Len(requested.value) : \A j \in 1..Len(requested.value[l]) :
            /\ IsSameAsRestRequest(requested.value[l][j])
            /\ \A k \in 1..(j - 1) : ~HasExplicitVersion(requested.value[l][k])
            => ~selectedPackages.ok

\* the versions of the normal packages resolved in line l before place j
PriorVersions(l, j) ==
    PrevVersions(resolveBestSuitablePackages(SubSeq(requested.value[l], 1, j - 1),
                                             catalog).value)

\* the "!" at place j of line l is reached: the lines before l and the requests
\* before it in its line were resolved, a normal package among them
MarkerReached(l, j) ==
    /\ IsSameAsRestRequest(requested.value[l][j])
    /\ \A k \in 1..(l - 1) : resolveBestSuitablePackages(requested.value[k], catalog).ok
    /\ resolveBestSuitablePackages(SubSeq(requested.value[l], 1, j - 1), catalog).ok
    /\ Len(PriorVersions(l, j)) > 0

\* C14: when a "!" is reached and the normal packages resolved before it in its line
\* do not all have the same version, the resolution fails with
\* InconsistentSiblingVersions; when they all have the same version, the package
\* chosen for the marker has exactly that version
C14_InconsistentSiblings ==
    Resolved =>
        \A l \in 1..Len(requested.value) : \A j \in 1..Len(requested.value[l]) :
            MarkerReached(l, j) =>
                IF \E i, k \in 1..Len(PriorVersions(l, j)) :
                       PriorVersions(l, j)[i] # PriorVersions(l, j)[k]
                THEN selectedPackages = Throw("InconsistentSiblingVersions")
                ELSE selectedPackages.ok =>
                         selectedPackages.value[l][j].parsedVersion = PriorVersions(l, j)[1]

----------------------------------------------------------------------------
(* Properties of the catalog parser *)

ExtractDone == pc = "extracted"

\* C15: extractPackages returns a result for every document with the listing block,
\* whatever its links are, and the result classifies every link: each is a package,
\* skipped or failed; it throws only when the block is missing
C15_NoLinkAborts ==
    ExtractDone =>
        /\ body.pre => extracted.ok
        /\ extracted.ok =>
               Len(extracted.value.packages) + Len(extracted.value.errors.skipped)
                   + Len(extracted.value.errors.failed) = Len(body.links)
        /\ ~body.pre => extracted = Throw("MalformedCatalogDocument")

\* the decoded names of the links of the document that was extracted
LinkNames == [i \in 1..Len(body.links) |-> decodeURIComponent(body.links[i]).value]

\* why a name is skipped, "" when it is not
SkipReason(name) ==
    IF EndsWith(name, <<".", "s", "i", "g">>) THEN "sig package"
    ELSE IF EndsWith(name, <<".", "d", "b">>) THEN ".db file"
    ELSE IF EndsWith(name, <<".", "o", "l", "d">>) THEN ".old file"
    ELSE IF name = <<".", ".", "/">> THEN "directory file"
    ELSE ""

\* the names that are skipped with their reasons, in document order
ExpectedSkipped ==
    LET skippedNames == SelectSeq(LinkNames, LAMBDA name : SkipReason(name) # "")
    IN  [i \in 1..Len(skippedNames) |->
            [name |-> skippedNames[i], reason |-> SkipReason(skippedNames[i])]]

\* C16: a link whose decoded name ends in ".sig" is skipped with the reason "sig
\* package", and is neither a package nor failed, also when the name matches the
\* artifact grammar; the checks for .sig, .db, .old and the parent directory come
\* before the grammar, so skipped holds exactly the names with such an end, each
\* with the reason of the first check it meets
C16_SigAlwaysSkipped ==
    ExtractDone /\ extracted.ok =>
        /\ extracted.value.errors.skipped = ExpectedSkipped
        /\ \A i \in 1..Len(LinkNames) :
               EndsWith(LinkNames[i], <<".", "s", "i", "g">>) =>
                   /\ \E k \in 1..Len(extracted.value.errors.skipped) :
                          extracted.value.errors.skipped[k]
                              = [name |-> LinkNames[i], reason |-> "sig package"]
                   /\ \A k \in 1..Len(extracted.value.packages) :
                          extracted.value.packages[k].fullName # LinkNames[i]
                   /\ \A k \in 1..Len(extracted.value.errors.failed) :
                          extracted.value.errors.failed[k] # LinkNames[i]

\* C16 happens: a signature whose name matches the artifact grammar was skipped in a
\* listing that also gave a package
C16_Witness ==
    /\ ExtractDone /\ extracted.ok
    /\ Len(extracted.value.packages) = 1
    /\ \E i \in 1..Len(LinkNames) :
           /\ EndsWith(LinkNames[i], <<".", "s", "i", "g">>)
           /\ MatchArtifactName(LinkNames[i]) # <<>>
           /\ extracted.value.errors.skipped
                  = <<[name |-> LinkNames[i], reason |-> "sig package"]>>

\* the name has ".db" in it, at its end or followed by further characters
HasDbShape(name) ==
    \E i \in 1..(Len(name) - 2) : SubSeq(name, i, i + 2) = <<".", "d", "b">>

\* the name is among the skipped ones with this reason
SkippedAs(name, reason) ==
    \E k \in 1..Len(extracted.value.errors.skipped) :
        extracted.value.errors.skipped[k] = [name |-> name, reason |-> reason]

\* the name is among the failed ones
Failed(name) ==
    \E k \in 1..Len(extracted.value.errors.failed) : extracted.value.errors.failed[k] = name

\* C17 as stated: every link with ".db" at the end of its name or followed by further
\* characters is skipped with the reason ".db file" and is not failed
C17_DbShapeSkipped ==
    ExtractDone /\ extracted.ok =>
        \A i \in 1..Len(LinkNames) :
            HasDbShape(LinkNames[i]) =>
                SkippedAs(LinkNames[i], ".db file") /\ ~Failed(LinkNames[i])

\* C17 as the code and its test have it: a link whose name ends in ".db" is skipped
\* with the reason ".db file" and is neither failed nor a package; a name in which
\* ".db" is followed by further characters, that has no skipped end and is no
\* artifact name, is failed and not skipped
C17_DbSuffixSkipped ==
    ExtractDone /\ extracted.ok =>
        \A i \in 1..Len(LinkNames) :
            /\ EndsWith(LinkNames[i], <<".", "d", "b">>) =>
                   /\ SkippedAs(LinkNames[i], ".db file")
                   /\ ~Failed(LinkNames[i])
                   /\ \A k \in 1..Len(extracted.value.packages) :
                          extracted.value.packages[k].fullName # LinkNames[i]
            /\ /\ HasDbShape(LinkNames[i])
               /\ SkipReason(LinkNames[i]) = ""
               /\ MatchArtifactName(LinkNames[i]) = <<>>
               => /\ Failed(LinkNames[i])
                  /\ \A k \in 1..Len(extracted.value.errors.skipped) :
                         extracted.value.errors.skipped[k].name # LinkNames[i]

\* C17 happens: a listing with c.db.tar.zst and c.db gave one failed and one skipped
\* name
C17_Witness ==
    /\ ExtractDone /\ extracted.ok
    /\ Len(LinkNames) = 2
    /\ HasDbShape(LinkNames[1]) /\ ~EndsWith(LinkNames[1], <<".", "d", "b">>)
    /\ EndsWith(LinkNames[2], <<".", "d", "b">>)
    /\ extracted.value.errors.failed = <<LinkNames[1]>>
    /\ extracted.value.errors.skipped = <<[name |-> LinkNames[2], reason |-> ".db file"]>>

\* the hrefs of the usable entries: the name has no skipped end and is an artifact name
UsableLinks ==
    SelectSeq(body.links,
              LAMBDA href : /\ SkipReason(decodeURIComponent(href).value) = ""
                            /\ MatchArtifactName(decodeURIComponent(href).value) # <<>>)

\* C18: the packages are the usable entries in document order; the fullUrl of each is
\* the base catalog URL followed by the href as written, escapes included, and its
\* fullName is the href decoded
C18_UrlFromRawHref ==
    ExtractDone /\ extracted.ok =>
        /\ Len(extracted.value.packages) = Len(UsableLinks)
        /\ \A k \in 1..Len(extracted.value.packages) :
               /\ k <= Len(UsableLinks)
               /\ extracted.value.packages[k].fullUrl
                      = getRepoLink(curMSystem) \o UsableLinks[k]
               /\ extracted.value.packages[k].fullName
                      = decodeURIComponent(UsableLinks[k]).value

\* C18 happens: an entry whose href has an escape was extracted: its URL has the "%",
\* its name has not
C18_Witness ==
    /\ ExtractDone /\ extracted.ok
    /\ \E k \in 1..Len(extracted.value.packages) :
           /\ \E i \in 1..Len(extracted.value.packages[k].fullUrl) :
                  extracted.value.packages[k].fullUrl[i] = "%"
           /\ \A i \in 1..Len(extracted.value.packages[k].fullName) :
                  extracted.value.packages[k].fullName[i] # "%"
           /\ \E i \in 1..Len(extracted.value.packages[k].fullName) :
                  extracted.value.packages[k].fullName[i] = "+"

\* the Content of an artifact with this name, version, target and extension
ContentWith(name, version, target, ext) ==
    [ext |-> ext, name |-> name, target |-> target, version |-> version]

\* the link, formatted from content, is parsed back to content: parseContentFrom
\* returns it, and the entry extracted for the link carries it
RoundTrips(link, content) ==
    /\ parseContentFrom(link) = Ok(<<content>>)
    /\ ~Failed(link)
    /\ \E k \in 1..Len(extracted.value.packages) :
           extracted.value.packages[k].fullName = link
    /\ \A k \in 1..Len(extracted.value.packages) :
           extracted.value.packages[k].fullName = link =>
               extracted.value.packages[k].parsedContent = content

\* C19 as stated: for every name, version, target and extension, the artifact name
\* formatted from them is parsed back to the same name, version, target and extension
C19_RoundTripAll ==
    ExtractDone /\ extracted.ok =>
        \A i \in 1..Len(body.links) :
            \A name \in ArtifactNames, version \in ArtifactVersions,
               target \in ArtifactTargets, ext \in ArtifactExts :
                body.links[i] = FormatArtifactName(name, version, target, ext) =>
                    RoundTrips(body.links[i], ContentWith(name, version, target, ext))

\* C19 for the targets and extensions the grammar can tell apart: for every name
\* (also one that has the shape of an artifact name), every version, every target
\* without "." and every extension without "-", the artifact name formatted from them
\* is parsed back to the same name, version, target and extension
C19_RoundTripUnambiguous ==
    ExtractDone /\ extracted.ok =>
        \A i \in 1..Len(body.links) :
            \A name \in ArtifactNames, version \in ArtifactVersions,
               target \in ArtifactTargets, ext \in ArtifactExts :
                /\ body.links[i] = FormatArtifactName(name, version, target, ext)
                /\ \A c \in 1..Len(target) : target[c] # "."
                /\ \A c \in 1..Len(ext) : ext[c] # "-"
                => RoundTrips(body.links[i], ContentWith(name, version, target, ext))

\* C19 happens: an artifact whose package name has itself the shape of an artifact
\* name was extracted with its whole name and its own version
C19_Witness ==
    /\ ExtractDone /\ extracted.ok
    /\ \E k \in 1..Len(extracted.value.packages) :
           /\ MatchArtifactName(extracted.value.packages[k].parsedContent.name) # <<>>
           /\ extracted.value.packages[k].parsedContent.version = Version(10, 0, 0, 7)
           /\ extracted.value.packages[k].fullName
                  = FormatArtifactName(extracted.value.packages[k].parsedContent.name,
                                       Version(10, 0, 0, 7), <<"a", "n", "y">>, <<"p", "k", "g">>)

----------------------------------------------------------------------------
(* Properties of the version comparison *)

VersionFields == {"major", "minor", "patch", "rev"}

\* the partial version that has the fields of version named in present, and no other
PartialOf(version, present) ==
    [field \in VersionFields |-> IF field \in present THEN <<version[field]>> ELSE <<>>]

\* C20: isCompatibleVersion(v, p) is true exactly when every field present in p
\* equals the field of v at the same place, for the versions of the catalog and the
\* partial versions made of them and those of the requests: the empty partial version
\* matches every v, {major: v.major} matches v and {major: v.major + 1} does not
C20_CompatibleExactly ==
    Resolved =>
        \A i \in 1..Len(catalog) :
            /\ \A k \in 1..Len(catalog) : \A present \in SUBSET VersionFields :
                   isCompatibleVersion(catalog[i].parsedContent.version,
                                       PartialOf(catalog[k].parsedContent.version, present))
                       <=> \A field \in present :
                               catalog[i].parsedContent.version[field]
                                   = catalog[k].parsedContent.version[field]
            /\ \A l \in 1..Len(requested.value) : \A j \in 1..Len(requested.value[l]) :
                   IsPartialRequest(requested.value[l][j]) =>
                       (isCompatibleVersion(catalog[i].parsedContent.version,
                                            requested.value[l][j].partialVersion)
                            <=> \A field \in VersionFields :
                                    FieldAgrees(requested.value[l][j].partialVersion[field],
                                                catalog[i].parsedContent.version[field]))
            /\ isCompatibleVersion(catalog[i].parsedContent.version, EMPTY_PARTIAL_VERSION)
            /\ isCompatibleVersion(catalog[i].parsedContent.version,
                                   PartialOf(catalog[i].parsedContent.version, {"major"}))
            /\ ~isCompatibleVersion(catalog[i].parsedContent.version,
                                    [EMPTY_PARTIAL_VERSION EXCEPT
                                         !.major = <<catalog[i].parsedContent.version.major + 1>>])

\* C20 happens: a request with the partial version 1.0 was resolved to an entry of
\* version 1.0.x although an entry with one of its names has a greater version that
\* differs in the minor field
C20_Witness ==
    /\ Resolved /\ selectedPackages.ok
    /\ \E l \in 1..Len(requested.value) : \E j \in 1..Len(requested.value[l]) :
           /\ HasExplicitVersion(requested.value[l][j])
           /\ selectedPackages.value[l][j].parsedVersion.minor = 0
           /\ \E i \in 1..Len(catalog) :
                  /\ ArrayIncludes(requested.value[l][j].names, catalog[i].parsedContent.name)
                  /\ catalog[i].parsedContent.version.major
                         = selectedPackages.value[l][j].parsedVersion.major
                  /\ catalog[i].parsedContent.version.minor = 1
                  /\ ~isCompatibleVersion(catalog[i].parsedContent.version,
                                          requested.value[l][j].partialVersion)

----------------------------------------------------------------------------
(* Properties of the comparison weight *)

\* a precedes b in the lexicographic order of (major, minor, patch, rev)
LexBefore(a, b) ==
    \/ a.major < b.major
    \/ a.major = b.major /\ a.minor < b.minor
    \/ a.major = b.major /\ a.minor = b.minor /\ a.patch < b.patch
    \/ a.major = b.major /\ a.minor = b.minor /\ a.patch = b.patch /\ a.rev < b.rev

\* C21: the comparison weight totally orders the versions: two versions of the
\* catalog have the same weight only if they are the same version, and one has the
\* smaller weight exactly when it precedes the other in the lexicographic order
C21_WeightTotalOrder ==
    Resolved =>
        \A i, k \in 1..Len(catalog) :
            /\ getCompareNumberForVersion(catalog[i].parsedContent.version)
                   = getCompareNumberForVersion(catalog[k].parsedContent.version)
               => catalog[i].parsedContent.version = catalog[k].parsedContent.version
            /\ getCompareNumberForVersion(catalog[i].parsedContent.version)
                   < getCompareNumberForVersion(catalog[k].parsedContent.version)
               <=> LexBefore(catalog[i].parsedContent.version,
                             catalog[k].parsedContent.version)

----------------------------------------------------------------------------
(* Properties of the order of a run *)

\* the catalog fetches, artifact downloads and installer calls of a log, in order
ExternalOps(log) == SelectSeq(log, LAMBDA entry : entry.op \in {"get", "download", "pacman"})

\* C22: the run is fail-fast: once a step has reported a failure, no step after it
\* fetches the catalog, downloads an artifact or calls the installer
C22_FailFast ==
    [][failed # <<>> => ExternalOps(ops') = ExternalOps(ops)]_vars

\* the five identifiers of an environment, in lower case
AcceptedIdentifiers ==
    { <<"m", "i", "n", "g", "w", "3", "2">>, <<"m", "i", "n", "g", "w", "6", "4">>,
      <<"u", "c", "r", "t", "6", "4">>, <<"c", "l", "a", "n", "g", "6", "4">>,
      <<"c", "l", "a", "n", "g", "a", "r", "m", "6", "4">> }

\* main is past toMSystem
PastToMSystem == pc # "main" /\ os = "win32"

\* C23: an msystem input that is one of the five identifiers, in any case, is
\* accepted and the run goes on with its lower-case form; every other input ends the
\* run with a failure, and the specification is never parsed and the catalog never
\* fetched
C23_MSystemAccepted ==
    /\ PastToMSystem /\ toLowerCase(msystemInput) \in AcceptedIdentifiers =>
           /\ curMSystem = toLowerCase(msystemInput)
           /\ \A i \in 1..Len(failed) :
                  failed[i] \notin {"InvalidMSystem", "DeprecatedMSystem", "UnimplementedMSystem"}
           /\ pc # "parse" => requested # NotCalled
    /\ PastToMSystem /\ toLowerCase(msystemInput) \notin AcceptedIdentifiers =>
           /\ pc = "done"
           /\ Len(failed) = 1
           /\ failed[1] \in {"InvalidMSystem", "DeprecatedMSystem", "UnimplementedMSystem"}
    /\ toLowerCase(msystemInput) \notin AcceptedIdentifiers =>
           requested = NotCalled /\ ops = <<>>

\* C23 happens: a run with the input MINGW64 in upper case went on as mingw64 and
\* fetched the catalog
C23_Witness ==
    /\ pc = "done"
    /\ msystemInput = <<"M", "I", "N", "G", "W", "6", "4">>
    /\ curMSystem = <<"m", "i", "n", "g", "w", "6", "4">>
    /\ requested.ok
    /\ ops # <<>>

----------------------------------------------------------------------------
(* Properties of the resolved packages *)

\* the catalog entry i satisfies the request at place j of line l: its parsed name is
\* a candidate name, and its version is compatible with the partial version of the
\* request or, for a "!", is the version of every normal package resolved before it
\* in the line
Satisfies(i, l, j) ==
    /\ ArrayIncludes(requested.value[l][j].names, catalog[i].parsedContent.name)
    /\ IsPartialRequest(requested.value[l][j]) =>
           \A field \in VersionFields :
               FieldAgrees(requested.value[l][j].partialVersion[field],
                           catalog[i].parsedContent.version[field])
    /\ IsSameAsRestRequest(requested.value[l][j]) =>
           \A k \in 1..(j - 1) :
               selectedPackages.value[l][k].type = "normal" =>
                   catalog[i].parsedContent.version = selectedPackages.value[l][k].parsedVersion

NormalRequestsOf(l) == SelectSeq(requested.value[l], LAMBDA request : request.type = "normal")

\* C25: a virtual request resolves to the virtual package of its name, whatever the
\* catalog and the packages before it are; it never fails, so a line of virtual
\* requests alone always resolves; and it changes nothing for the other requests of
\* its line: the line fails or resolves as it does without its virtual requests, with
\* the same failure and the same normal packages in the same order
C25_VirtualPassesThrough ==
    Resolved =>
        /\ selectedPackages.ok =>
               \A l \in 1..Len(requested.value) : \A j \in 1..Len(requested.value[l]) :
                   requested.value[l][j].type = "virtual" =>
                       selectedPackages.value[l][j]
                           = [type |-> "virtual", name |-> requested.value[l][j].name]
        /\ (\A l \in 1..Len(requested.value) : NormalRequestsOf(l) = <<>>)
               => selectedPackages.ok
        /\ \A l \in 1..Len(requested.value) :
               /\ resolveBestSuitablePackages(requested.value[l], catalog).ok
                      = resolveBestSuitablePackages(NormalRequestsOf(l), catalog).ok
               /\ resolveBestSuitablePackages(requested.value[l], catalog).error
                      = resolveBestSuitablePackages(NormalRequestsOf(l), catalog).error
               /\ SelectSeq(resolveBestSuitablePackages(requested.value[l], catalog).value,
                            isNormalResolvedPackage)
                      = resolveBestSuitablePackages(NormalRequestsOf(l), catalog).value

\* C25 happens: a line with a normal request, a virtual one and a "!" was resolved,
\* and the "!" took the version of the normal package before the virtual one
C25_Witness ==
    /\ Resolved /\ selectedPackages.ok
    /\ Len(requested.value[1]) = 3
    /\ requested.value[1][1].type = "normal"
    /\ requested.value[1][2].type = "virtual"
    /\ IsSameAsRestRequest(requested.value[1][3])
    /\ selectedPackages.value[1][2].type = "virtual"
    /\ selectedPackages.value[1][3].parsedVersion = selectedPackages.value[1][1].parsedVersion

\* C26: the NotAnInteger failure of parseIntSafe is unreachable: no run fails with
\* it, whatever the install input and the listing are, as every digit run captured
\* by the partial-version pattern and by the artifact-name pattern parses to a number
C26_NotAnIntegerUnreachable ==
    /\ \A i \in 1..Len(failed) : failed[i] # "NotAnInteger"
    /\ requested.error # "NotAnInteger"
    /\ extracted.error # "NotAnInteger"

\* the candidate entries of the request that no candidate outweighs
GreatestCandidates(requestedPackage) ==
    {i \in CandidateEntries(requestedPackage) :
        \A k \in CandidateEntries(requestedPackage) :
            getCompareNumberForVersion(catalog[k].parsedContent.version)
                <= getCompareNumberForVersion(catalog[i].parsedContent.version)}

\* C27: when several candidate entries of a request with a partial version have the
\* greatest comparison weight, the entry chosen is the one of them that comes first
\* in the catalog
C27_FirstOfEqualWeight ==
    Resolved /\ selectedPackages.ok =>
        \A l \in 1..Len(requested.value) : \A j \in 1..Len(requested.value[l]) :
            IsPartialRequest(requested.value[l][j]) =>
                \E i \in GreatestCandidates(requested.value[l][j]) :
                    /\ \A k \in GreatestCandidates(requested.value[l][j]) : i <= k
                    /\ BuiltFrom(selectedPackages.value[l][j], i)

\* C27 happens: two entries with different names had the greatest weight for a
\* request, and the first of them was chosen
C27_Witness ==
    /\ Resolved /\ selectedPackages.ok
    /\ \E l \in 1..Len(requested.value) : \E j \in 1..Len(requested.value[l]) :
           /\ IsPartialRequest(requested.value[l][j])
           /\ \E i, k \in GreatestCandidates(requested.value[l][j]) :
                  /\ i < k
                  /\ catalog[i].fullName # catalog[k].fullName
                  /\ selectedPackages.value[l][j].name = catalog[i].fullName

\* C28: a resolution that succeeds keeps the shape of the request: one batch for each
\* line, in order, with one package for each request of the line; the package at a
\* place is virtual exactly when the request at the place is, and otherwise is what
\* the request resolves to after the packages before it in the line
C28_ShapeKept ==
    Resolved /\ selectedPackages.ok =>
        /\ Len(selectedPackages.value) = Len(requested.value)
        /\ \A l \in 1..Len(requested.value) :
               /\ Len(selectedPackages.value[l]) = Len(requested.value[l])
               /\ \A j \in 1..Len(requested.value[l]) :
                      /\ selectedPackages.value[l][j].type = "virtual"
                             <=> requested.value[l][j].type = "virtual"
                      /\ Ok(selectedPackages.value[l][j])
                             = resolveBestSuitablePackage(
                                   requested.value[l][j], catalog,
                                   PrevVersions(SubSeq(selectedPackages.value[l], 1, j - 1)))

\* C28 happens: two lines of different lengths were resolved, one with a virtual
\* package after a normal one
C28_Witness ==
    /\ Resolved /\ selectedPackages.ok
    /\ Len(selectedPackages.value) = 2
    /\ Len(selectedPackages.value[1]) = 1
    /\ Len(selectedPackages.value[2]) = 2
    /\ selectedPackages.value[1][1].type = "normal"
    /\ selectedPackages.value[2][1].type = "normal"
    /\ selectedPackages.value[2][2].type = "virtual"
    /\ selectedPackages.value[1][1].name # selectedPackages.value[2][1].name

\* what becomes of a link with this decoded name
ClassOf(name) ==
    IF SkipReason(name) # "" THEN "skipped"
    ELSE IF MatchArtifactName(name) # <<>> THEN "package"
    ELSE "failed"

\* the decoded names of the links of a class, in document order
NamesOfClass(class) == SelectSeq(LinkNames, LAMBDA name : ClassOf(name) = class)

\* C30: when extractPackages returns, its three lists partition the links: the names
\* of the packages, of the skipped items and of the failed ones are the names of the
\* links of each kind in document order, so every link is in exactly one list; every
\* skipped item has one of the four reasons, and "../" is skipped as "directory file"
C30_LinksPartitioned ==
    ExtractDone /\ extracted.ok =>
        /\ [k \in 1..Len(extracted.value.packages) |-> extracted.value.packages[k].fullName]
               = NamesOfClass("package")
        /\ [k \in 1..Len(extracted.value.errors.skipped) |->
                extracted.value.errors.skipped[k].name] = NamesOfClass("skipped")
        /\ extracted.value.errors.failed = NamesOfClass("failed")
        /\ Len(extracted.value.packages) + Len(extracted.value.errors.skipped)
               + Len(extracted.value.errors.failed) = Len(body.links)
        /\ \A k \in 1..Len(extracted.value.errors.skipped) :
               extracted.value.errors.skipped[k].reason
                   \in {"sig package", ".db file", ".old file", "directory file"}
        /\ \A i \in 1..Len(LinkNames) :
               LinkNames[i] = <<".", ".", "/">> =>
                   /\ SkippedAs(LinkNames[i], "directory file")
                   /\ ~Failed(LinkNames[i])
                   /\ \A k \in 1..Len(extracted.value.packages) :
                          extracted.value.packages[k].fullName # LinkNames[i]

\* C30 happens: a listing of a name that is no artifact followed by "../" gave one
\* failed name and one item skipped as "directory file"
C30_Witness ==
    /\ ExtractDone /\ extracted.ok
    /\ Len(body.links) = 2
    /\ body.links[2] = <<".", ".", "/">>
    /\ extracted.value.packages = <<>>
    /\ extracted.value.errors.failed = <<body.links[1]>>
    /\ extracted.value.errors.skipped
           = <<[name |-> <<".", ".", "/">>, reason |-> "directory file"]>>

====
